---- MODULE Spec2Model ----
(***************************************************************************)
(* A model of the BEJO backend (n0yy/bejo-ai): the tiered, access          *)
(* controlled knowledge retrieval (app/core/retrieval.py), the search tool *)
(* of the agent service (app/services/agent.py, app/services/vectors.py)   *)
(* and the write-through chat history (app/services/chat_history.py).      *)
(*                                                                         *)
(* Each subsystem has its own specification over the shared variables:     *)
(*   SpecMerge      HybridRetrievalStrategy._deduplicate_and_rank          *)
(*   SpecRetrieval  RetrievalService                                       *)
(*   SpecSearch     AgentService.search_knowledge over VectorService       *)
(*   SpecHistory    QdrantChatMessageHistory                               *)
(* A specification leaves the variables of the other subsystems at their   *)
(* initial values.                                                         *)
(***************************************************************************)
EXTENDS Integers, Sequences, FiniteSets, TLC

VARIABLES
    \* the vector database: the documents held by each knowledge collection
    collections,
    \* RetrievalService.vector_stores: the collections initialised at construction
    vector_stores,
    \* the last RetrievalService call and its outcome
    ret,
    \* HybridRetrievalStrategy._deduplicate_and_rank: its argument and its result
    mergeIn,
    mergeOut,
    \* VectorService._vector_stores: the collections opened so far
    _vector_stores,
    \* the last call of the search_knowledge tool and its outcome
    search,
    \* QdrantChatMessageHistory: its fields
    _messages,
    _pending_messages,
    _message_counter,
    _loaded,
    \* the chatHistory collection of the store: its points, in upsert order
    store,
    \* datetime.now(), as a count of the timestamps taken
    clock,
    \* the running flush_pending_messages calls: their local variables
    flush,
    \* the last step of a QdrantChatMessageHistory call and its outcome
    hcall,
    \* the number of messages handed to add_message and add_message_async
    added,
    \* the last call of an agent tool and what it gave back to the agent loop
    tool,
    \* the run of the agent loop that a chat request started
    run,
    \* AgentManager.agents: the BejoAgent registered under each agent id
    agents,
    \* the number of BejoAgent instances made so far
    created,
    \* the last call of the AgentManager or of one of its agents
    mcall,
    \* the database behind the SQLTool: its columns per table and its data
    db,
    \* SQLTool: the private attributes of the tool
    _tables, _columns, _sample_data, _cache, _schema_hash,
    \* the time of the TTLCache's timer
    now,
    \* the last call of SQLTool._run
    sqlcall,
    \* the message of an add_message_async call that has appended it to the
    \* list and has not yet stored it
    adding,
    \* the events that the running EmbeddingService.embed_document has yielded
    events,
    \* the embed_document generator: where it is suspended, and its locals
    embed

knowledgeVars == <<collections, vector_stores, ret>>
mergeVars == <<mergeIn, mergeOut>>
searchVars == <<_vector_stores, search>>
historyVars ==
    <<_messages, _pending_messages, _message_counter, _loaded, store, clock, flush,
      hcall, added>>
toolVars == <<tool>>
agentVars == <<run>>
managerVars == <<agents, created, mcall>>
sqlVars == <<db, _tables, _columns, _sample_data, _cache, _schema_hash, now, sqlcall>>
embedVars == <<events, embed>>
asyncVars == <<adding>>
\* the variables of the subsystems modelled further down, and of the embedding
extVars == <<toolVars, agentVars, managerVars, sqlVars, embedVars, asyncVars>>
\* the variables of the retrieval, merge, search and history subsystems, and of
\* the embedding
baseVars == <<knowledgeVars, mergeVars, searchVars, historyVars, embedVars, asyncVars>>
vars ==
    <<collections, vector_stores, ret, mergeIn, mergeOut, _vector_stores, search,
      _messages, _pending_messages, _message_counter, _loaded, store, clock, flush,
      hcall, added, tool, run, agents, created, mcall,
      db, _tables, _columns, _sample_data, _cache, _schema_hash, now, sqlcall,
      adding, events, embed>>

(***************************************************************************)
(* Bounds of the model.                                                    *)
(***************************************************************************)
\* documents that exist in the knowledge base
MaxDocs == 3
\* length of the list handed to _deduplicate_and_rank
MaxMergeLen == 7
\* documents of that list whose leading text was met before in it
MaxRepeats == 1
\* documents of that list that carry no score
MaxUnscored == 1
\* messages handed to one chat history
MaxMessages == 3

(***************************************************************************)
(* Sequences.                                                              *)
(***************************************************************************)
Min(a, b) == IF a <= b THEN a ELSE b

Range(s) == {s[i] : i \in 1..Len(s)}

Last(s) == s[Len(s)]

Front(s) == SubSeq(s, 1, Len(s) - 1)

Reverse(s) == [i \in 1..Len(s) |-> s[Len(s) + 1 - i]]

\* Python's s[:n]
Take(s, n) == SubSeq(s, 1, Min(n, Len(s)))

\* the injective sequences of length min(k, |S|) over S: what a top-k search of
\* a collection holding S can return, for some query
TopK(S, k) ==
    LET n == Min(k, Cardinality(S))
    IN  {q \in [1..n -> S] : \A i, j \in 1..n : i # j => q[i] # q[j]}

(***************************************************************************)
(* Documents. page_content is a string, modelled as a sequence of          *)
(* character codes; metadata is the optional "score".                      *)
(***************************************************************************)
\* doc.page_content[:100]
HashPrefixLen == 100
\* unique_docs[:5]
TopN == 5

\* a text of HashPrefixLen characters: two contents that start with it agree on
\* their first 100 characters
LongText == [i \in 1..HashPrefixLen |-> 1]

ScoreValues == {10, 20}

Document(id, content, has_score, score) ==
    [id |-> id, page_content |-> content, has_score |-> has_score, score |-> score]

(***************************************************************************)
(* HybridRetrievalStrategy._deduplicate_and_rank                           *)
(***************************************************************************)
content_key_whole(doc) == doc.page_content

\* hash(doc.page_content[:100]); two hashes are taken to be equal exactly when
\* the hashed strings are (hash collisions are not modelled)
content_key(doc) == Take(doc.page_content, HashPrefixLen)

RECURSIVE unique_docs_of(_)
\* the loop over docs with the `seen` set: a document is kept when no kept
\* document before it has its key
unique_docs_of(docs) ==
    IF docs = <<>> THEN <<>>
    ELSE LET u == unique_docs_of(Front(docs))
             d == Last(docs)
         IN  IF \E i \in 1..Len(u) : content_key(u[i]) = content_key(d)
             THEN u
             ELSE Append(u, d)

\* x.metadata.get("score", 0)
sort_key(doc) == IF doc.has_score THEN doc.score ELSE 0

\* s is sorted; d goes after every element whose key is at least its own
InsertDesc(s, d) ==
    LET n == Cardinality({i \in 1..Len(s) : sort_key(s[i]) >= sort_key(d)})
    IN  SubSeq(s, 1, n) \o <<d>> \o SubSeq(s, n + 1, Len(s))

RECURSIVE SortByScoreDesc(_)
\* list.sort(key=..., reverse=True): descending and stable
SortByScoreDesc(s) ==
    IF s = <<>> THEN <<>>
    ELSE InsertDesc(SortByScoreDesc(Front(s)), Last(s))

\* "Sort by score if available": the test reads the first document only
rank(unique_docs) ==
    IF unique_docs # <<>> /\ unique_docs[1].has_score
    THEN SortByScoreDesc(unique_docs)
    ELSE unique_docs

top_all(docs) == docs

\* unique_docs[:5]
top(docs) == Take(docs, TopN)

_deduplicate_and_rank(docs) == top(rank(unique_docs_of(docs)))

(***************************************************************************)
(* The knowledge collections and the access tables.                        *)
(***************************************************************************)
\* f"bejo-knowledge-level-{target_level}", by level
CollectionName ==
    << "bejo-knowledge-level-1", "bejo-knowledge-level-2",
       "bejo-knowledge-level-3", "bejo-knowledge-level-4" >>

AllCollections == Range(CollectionName)

\* int(collection_name.split("-")[-1])
LevelOfCollection(name) == CHOOSE l \in DOMAIN CollectionName : CollectionName[l] = name

collection_levels_leaky ==
    [l \in {1, 2, 3, 4} |->
        CASE l = 1 -> << "bejo-knowledge-level-1", "bejo-knowledge-level-2" >>
          [] l = 2 -> << "bejo-knowledge-level-1", "bejo-knowledge-level-2" >>
          [] l = 3 -> << "bejo-knowledge-level-1", "bejo-knowledge-level-2",
                         "bejo-knowledge-level-3" >>
          [] l = 4 -> << "bejo-knowledge-level-1", "bejo-knowledge-level-2",
                         "bejo-knowledge-level-3", "bejo-knowledge-level-4" >>]

\* RetrievalService.collection_levels
collection_levels ==
    [l \in {1, 2, 3, 4} |->
        CASE l = 1 -> << "bejo-knowledge-level-1" >>
          [] l = 2 -> << "bejo-knowledge-level-1", "bejo-knowledge-level-2" >>
          [] l = 3 -> << "bejo-knowledge-level-1", "bejo-knowledge-level-2",
                         "bejo-knowledge-level-3" >>
          [] l = 4 -> << "bejo-knowledge-level-1", "bejo-knowledge-level-2",
                         "bejo-knowledge-level-3", "bejo-knowledge-level-4" >>]

ACCESS_PERMISSIONS_short ==
    [l \in {1, 2, 3, 4} |->
        CASE l = 1 -> << "bejo-knowledge-level-1" >>
          [] l = 2 -> << "bejo-knowledge-level-1", "bejo-knowledge-level-2" >>
          [] l = 3 -> << "bejo-knowledge-level-1", "bejo-knowledge-level-2" >>
          [] l = 4 -> << "bejo-knowledge-level-1", "bejo-knowledge-level-2",
                         "bejo-knowledge-level-3", "bejo-knowledge-level-4" >>]

\* Settings.ACCESS_PERMISSIONS
ACCESS_PERMISSIONS ==
    [l \in {1, 2, 3, 4} |->
        CASE l = 1 -> << "bejo-knowledge-level-1" >>
          [] l = 2 -> << "bejo-knowledge-level-1", "bejo-knowledge-level-2" >>
          [] l = 3 -> << "bejo-knowledge-level-1", "bejo-knowledge-level-2",
                         "bejo-knowledge-level-3" >>
          [] l = 4 -> << "bejo-knowledge-level-1", "bejo-knowledge-level-2",
                         "bejo-knowledge-level-3", "bejo-knowledge-level-4" >>]

\* the documents that exist: odd ids start with the long text (equal leading
\* 100 characters, different contents), every third carries no score
PoolDocument(k) ==
    Document(k,
             IF k % 2 = 1 THEN LongText \o <<k>> ELSE <<k>>,
             k % 3 # 0,
             IF k % 3 = 0 THEN 0 ELSE 10 * (1 + (k % 2)))

DocPool == {PoolDocument(k) : k \in 1..MaxDocs}

StoredIds(names) == {d.id : d \in UNION {collections[n] : n \in names}}

(***************************************************************************)
(* HybridRetrievalStrategy. A weight is kept in tenths (10 is 1.0) and a   *)
(* retriever is the name of the collection it searches.                    *)
(***************************************************************************)
\* HybridRetrievalStrategy.__init__: weights or [1.0] * len(retrievers)
HybridRetrievalStrategy(retrievers, weights) ==
    [kind |-> "hybrid",
     retrievers |-> retrievers,
     weights |-> IF weights = <<>> THEN [i \in 1..Len(retrievers) |-> 10] ELSE weights,
     k |-> 2]

\* doc.metadata["score"] *= weight, for a document that has a score
apply_weight(doc, weight) ==
    IF doc.has_score THEN [doc EXCEPT !.score = (doc.score * weight) \div 10] ELSE doc

RECURSIVE gather(_, _, _)
\* the loop of retrieve over zip(self.retrievers, self.weights), up to pair n;
\* found[name] is what the retriever of collection `name` returns
gather(strategy, found, n) ==
    IF n = 0 THEN <<>>
    ELSE LET docs == found[strategy.retrievers[n]]
         IN  gather(strategy, found, n - 1)
             \o [i \in 1..Len(docs) |-> apply_weight(docs[i], strategy.weights[n])]

\* HybridRetrievalStrategy.retrieve
hybrid_retrieve(strategy, found) ==
    _deduplicate_and_rank(
        gather(strategy, found, Min(Len(strategy.retrievers), Len(strategy.weights))))

(***************************************************************************)
(* RetrievalService                                                        *)
(***************************************************************************)
NoRetriever == [kind |-> "None", retrievers |-> <<>>, weights |-> <<>>, k |-> 0]

basic_target_lowest(cols) == cols[1]

\* collections[-1]: "Last collection is the highest level available"
basic_target(cols) == cols[Len(cols)]

\* weights.append(1.0 + (i * 0.2)), i the index in reversed(collections)
hierarchical_weight(i) == 10 + (i * 2)

comprehensive_weights_given(n) == [i \in 1..n |-> 10 + (2 * i)]

\* HybridRetrievalStrategy(retrievers): no weights are given
comprehensive_weights(n) == <<>>

\* the hierarchical branch: the initialised collections from the highest level
\* down, each with the weight of its index in reversed(collections)
hierarchical_strategy(cols) ==
    LET rev == Reverse(cols)
        idx == {i \in 1..Len(rev) : rev[i] \in vector_stores}
        \* the n-th smallest element of idx
        nth(n) == CHOOSE i \in idx : Cardinality({j \in idx : j < i}) = n - 1
        retrievers == [n \in 1..Cardinality(idx) |-> rev[nth(n)]]
        weights == [n \in 1..Cardinality(idx) |-> hierarchical_weight(nth(n) - 1)]
    IN  IF retrievers # <<>>
        THEN HybridRetrievalStrategy(retrievers, weights)
        ELSE NoRetriever

\* RetrievalService.get_retriever_for_level
get_retriever_for_level(level, strategy) ==
    IF level \notin DOMAIN collection_levels
    THEN [kind |-> "ValueError", retrievers |-> <<>>, weights |-> <<>>, k |-> 0]
    ELSE LET cols == collection_levels[level]
             available_stores == SelectSeq(cols, LAMBDA c : c \in vector_stores)
         IN  IF available_stores = <<>> THEN NoRetriever
             ELSE CASE strategy = "basic" ->
                         IF basic_target(cols) \in vector_stores
                         THEN [kind |-> "retriever",
                               retrievers |-> <<basic_target(cols)>>,
                               weights |-> <<>>, k |-> 3]
                         ELSE NoRetriever
                    [] strategy = "hierarchical" -> hierarchical_strategy(cols)
                    [] strategy = "comprehensive" ->
                         HybridRetrievalStrategy(
                             available_stores,
                             comprehensive_weights(Len(available_stores)))
                    [] OTHER -> NoRetriever

LevelInputs == 1..5

StrategyInputs == {"basic", "hierarchical", "comprehensive", "semantic"}

Call(op, level, strategy, outcome, r, queried, out) ==
    [op |-> op, level |-> level, strategy |-> strategy, outcome |-> outcome,
     retrievers |-> r.retrievers, weights |-> r.weights,
     queried |-> queried, out |-> out]

\* retrieve_documents without its try/except: the retriever's exception leaves
\* the method
retrieve_documents_uncaught(level, strategy, failAt, found) ==
    LET r == get_retriever_for_level(level, strategy)
    IN  CASE r.kind = "ValueError" ->
               Call("retrieve_documents", level, strategy, "ValueError", r, <<>>, <<>>)
          [] r.kind = "None" ->
               Call("retrieve_documents", level, strategy, "ok", r, <<>>, <<>>)
          [] failAt > 0 ->
               Call("retrieve_documents", level, strategy, "Exception", r,
                    SubSeq(r.retrievers, 1, failAt), <<>>)
          [] r.kind = "hybrid" ->
               Call("retrieve_documents", level, strategy, "ok", r,
                    r.retrievers, hybrid_retrieve(r, found))
          [] OTHER ->
               Call("retrieve_documents", level, strategy, "ok", r,
                    r.retrievers, found[r.retrievers[1]])

\* RetrievalService.retrieve_documents. failAt = n > 0: the n-th retriever
\* raises; f1..f4 are what the searches of the four collections return.
retrieve_documents(level, strategy, failAt, found) ==
    LET r == get_retriever_for_level(level, strategy)
    IN  CASE r.kind = "ValueError" ->
               Call("retrieve_documents", level, strategy, "ValueError", r, <<>>, <<>>)
          [] r.kind = "None" ->
               Call("retrieve_documents", level, strategy, "ok", r, <<>>, <<>>)
          [] failAt > 0 ->
               Call("retrieve_documents", level, strategy, "ok", r,
                    SubSeq(r.retrievers, 1, failAt), <<>>)
          [] r.kind = "hybrid" ->
               Call("retrieve_documents", level, strategy, "ok", r,
                    r.retrievers, hybrid_retrieve(r, found))
          [] OTHER ->
               Call("retrieve_documents", level, strategy, "ok", r,
                    r.retrievers, found[r.retrievers[1]])

\* what the search of the collection of level l can return to the retriever r
\* (nothing when r does not search it, or when the call fails anyway)
Found(r, failAt, l) ==
    IF failAt = 0 /\ CollectionName[l] \in Range(r.retrievers)
    THEN TopK(collections[CollectionName[l]], r.k)
    ELSE {<<>>}

RetrieveDocuments ==
    /\ \E level \in LevelInputs, strategy \in StrategyInputs :
         LET r == get_retriever_for_level(level, strategy)
         IN  \E failAt \in 0..Len(r.retrievers) :
             \E f1 \in Found(r, failAt, 1), f2 \in Found(r, failAt, 2),
                f3 \in Found(r, failAt, 3), f4 \in Found(r, failAt, 4) :
                ret' = retrieve_documents(
                           level, strategy, failAt,
                           [n \in AllCollections |->
                               <<f1, f2, f3, f4>>[LevelOfCollection(n)]])
    /\ UNCHANGED <<collections, vector_stores, mergeVars, searchVars, historyVars, extVars>>

add_documents_to_level_below(documents, target_level, storeFails) ==
    IF target_level \notin {1, 2, 3, 4}
    THEN [status |-> "ValueError", collection |-> "", count |-> 0, stored |-> {}]
    ELSE [status |-> IF storeFails THEN "error" ELSE "success",
          collection |-> CollectionName[IF target_level > 1 THEN target_level - 1 ELSE 1],
          count |-> Cardinality(documents),
          stored |-> IF storeFails THEN {} ELSE documents]

\* RetrievalService.add_documents_to_level; storeFails: add_documents raises
add_documents_to_level(documents, target_level, storeFails) ==
    IF target_level \notin {1, 2, 3, 4}
    THEN [status |-> "ValueError", collection |-> "", count |-> 0, stored |-> {}]
    ELSE LET collection_name == CollectionName[target_level]
         IN  IF collection_name \in vector_stores
             THEN IF storeFails
                  THEN [status |-> "error", collection |-> collection_name,
                        count |-> 0, stored |-> {}]
                  ELSE [status |-> "success", collection |-> collection_name,
                        count |-> Cardinality(documents), stored |-> documents]
             ELSE [status |-> "error", collection |-> collection_name,
                   count |-> 0, stored |-> {}]

AddDocumentsToLevel ==
    /\ \E documents \in SUBSET {d \in DocPool : d.id \notin StoredIds(AllCollections)},
          target_level \in LevelInputs, storeFails \in BOOLEAN :
         LET res == add_documents_to_level(documents, target_level, storeFails)
         IN  /\ documents # {}
             /\ collections' =
                  [n \in AllCollections |->
                      IF n = res.collection THEN collections[n] \cup res.stored
                      ELSE collections[n]]
             /\ ret' = [op |-> "add_documents_to_level", level |-> target_level,
                        strategy |-> "", outcome |-> res.status,
                        retrievers |-> <<>>, weights |-> <<>>,
                        queried |-> <<>>, out |-> <<>>]
    /\ UNCHANGED <<vector_stores, mergeVars, searchVars, historyVars, extVars>>

\* embed_document, POST /knowledge/embed: the route calls
\* add_documents_to_level(documents=docs, level=request.category, ids=uuids);
\* the method has no parameter named level, so the call raises TypeError
\* before the method runs, and the route reports it in an error event
EmbedDocument ==
    /\ \E category \in LevelInputs :
         ret' = [op |-> "embed_document", level |-> category, strategy |-> "",
                 outcome |-> "TypeError", retrievers |-> <<>>, weights |-> <<>>,
                 queried |-> <<>>, out |-> <<>>]
    /\ UNCHANGED <<collections, vector_stores, mergeVars, searchVars, historyVars,
                   extVars>>

NoCall ==
    [op |-> "", level |-> 0, strategy |-> "", outcome |-> "",
     retrievers |-> <<>>, weights |-> <<>>, queried |-> <<>>, out |-> <<>>]

(***************************************************************************)
(* QdrantChatMessageHistory: the state of a new history.                   *)
(***************************************************************************)
Flushers == {"f1", "f2"}

IdleFlush == [pc |-> "idle", messages_to_store |-> <<>>, starting_index |-> 0, i |-> 0]

NoMessage == [type |-> "", content |-> 0, via |-> ""]

NoHistoryCall ==
    [op |-> "", message |-> NoMessage, store_failed |-> FALSE, raised |-> FALSE]

\* QdrantChatMessageHistory.__init__
NewHistory ==
    /\ _messages = <<>>
    /\ _loaded = FALSE
    /\ _pending_messages = <<>>
    /\ _message_counter = 0
    /\ flush = [f \in Flushers |-> IdleFlush]
    /\ hcall = NoHistoryCall
    /\ added = 0
    /\ adding = NoMessage

InitIdleHistory ==
    /\ NewHistory
    /\ store = <<>>
    /\ clock = 0

NoSearch ==
    [user_level |-> 0, outcome |-> "", opened |-> <<>>, queried |-> <<>>,
     results |-> <<>>]

InitIdleSearch ==
    /\ _vector_stores = {}
    /\ search = NoSearch

InitIdleKnowledge ==
    /\ collections = [n \in AllCollections |-> {}]
    /\ vector_stores = {}
    /\ ret = NoCall

InitIdleMerge ==
    /\ mergeIn = <<>>
    /\ mergeOut = <<>>

NoToolCall == [name |-> "", level |-> 0, raised |-> FALSE, exc |-> "", observation |-> <<>>]

NoRun == [executor |-> "", user_level |-> 0, pc |-> "idle", iterations |-> 0,
          steps |-> 0, output |-> ""]

\* a dictionary with no key
EmptyDict == [k \in {} |-> 0]

NoManagerCall == [op |-> "", agent_id |-> "", session_id |-> "", returned |-> 0,
                  result |-> FALSE]

\* AgentManager.__init__
NewAgentManager ==
    /\ agents = EmptyDict
    /\ created = 0
    /\ mcall = NoManagerCall

\* _schema_hash: str = PrivateAttr(default="")
NoHash == <<>>

NoRows == [query |-> <<>>, params |-> <<>>, columns |-> EmptyDict, data |-> 0]

NoSqlCall ==
    [turn |-> 0, query |-> <<>>, params |-> [none |-> TRUE, items |-> <<>>],
     outcome |-> "", rows |-> NoRows, changed |-> FALSE, hit |-> FALSE,
     executed |-> FALSE, accessed |-> FALSE, under |-> NoHash, hash |-> NoHash]

\* SQLTool.__init__
NewSQLTool ==
    /\ _tables = {}
    /\ _columns = EmptyDict
    /\ _sample_data = EmptyDict
    /\ _cache = <<>>
    /\ _schema_hash = NoHash
    /\ now = 0
    /\ sqlcall = NoSqlCall

InitIdleSQL ==
    /\ db = [columns |-> EmptyDict, data |-> 1]
    /\ NewSQLTool

\* no embed_document call has been made
NoEmbed == [pc |-> "idle", category |-> 0, total_chunks |-> 0, i |-> 0, stored |-> 0]

InitIdleEmbed ==
    /\ events = <<>>
    /\ embed = NoEmbed

InitIdleExt ==
    /\ tool = NoToolCall
    /\ run = NoRun
    /\ NewAgentManager
    /\ InitIdleSQL
    /\ InitIdleEmbed

\* RetrievalService.__init__: every collection whose store could be created is
\* in vector_stores; the collections start empty
InitRetrieval ==
    /\ collections = [n \in AllCollections |-> {}]
    /\ vector_stores \in SUBSET AllCollections
    /\ ret = NoCall
    /\ InitIdleMerge
    /\ InitIdleSearch
    /\ InitIdleHistory
    /\ InitIdleExt

NextRetrieval == RetrieveDocuments \/ AddDocumentsToLevel \/ EmbedDocument

SpecRetrieval == InitRetrieval /\ [][NextRetrieval]_vars

(***************************************************************************)
(* VectorService and the search_knowledge tool of AgentService.            *)
(***************************************************************************)
\* settings.RETRIEVAL_K
RETRIEVAL_K == 5

permitted_all(user_level) == CollectionName

\* settings.ACCESS_PERMISSIONS.get(user_level, [])
permitted(user_level) ==
    IF user_level \in DOMAIN ACCESS_PERMISSIONS THEN ACCESS_PERMISSIONS[user_level] ELSE <<>>

\* VectorService.get_vector_store returns a store: the collection is already
\* in _vector_stores, or ensure_collection_exists succeeds (creatable: the
\* collections for which it does); otherwise CollectionNotFoundError
opens(collection_name, creatable) ==
    collection_name \in _vector_stores \/ collection_name \in creatable

\* VectorService.get_accessible_vector_stores: the permitted collections that
\* open, in the table's order; one that raises CollectionNotFoundError is skipped
get_accessible_vector_stores(user_level, creatable) ==
    SelectSeq(permitted(user_level), LAMBDA c : opens(c, creatable))

\* result.metadata["source_collection"] = collection_name
tag(doc, collection_name) ==
    [id |-> doc.id, page_content |-> doc.page_content, has_score |-> doc.has_score,
     score |-> doc.score, source_collection |-> collection_name]

RECURSIVE all_results(_, _, _)
\* the loop over vector_stores.items(), up to store n
all_results(stores, found, n) ==
    IF n = 0 THEN <<>>
    ELSE LET docs == found[stores[n]]
         IN  all_results(stores, found, n - 1)
             \o [i \in 1..Len(docs) |-> tag(docs[i], stores[n])]

\* the part of a result in the returned text: "[source_collection] page_content"
context_part(doc) == <<doc.source_collection, doc.page_content>>

\* search_knowledge. failAt = n > 0: the search of the n-th store raises and the
\* tool returns "Search failed: ..."
search_knowledge(user_level, creatable, failAt, found) ==
    LET stores == get_accessible_vector_stores(user_level, creatable)
    IN  CASE stores = <<>> ->
               [user_level |-> user_level, outcome |-> "no_access",
                opened |-> stores, queried |-> <<>>, results |-> <<>>]
          [] failAt > 0 ->
               [user_level |-> user_level, outcome |-> "failed",
                opened |-> stores, queried |-> SubSeq(stores, 1, failAt),
                results |-> <<>>]
          [] OTHER ->
               LET sorted == SortByScoreDesc(all_results(stores, found, Len(stores)))
                   top_results == Take(sorted, RETRIEVAL_K * 2)
               IN  [user_level |-> user_level, outcome |-> "results",
                    opened |-> stores, queried |-> stores,
                    results |-> [i \in 1..Len(top_results) |->
                                    context_part(top_results[i])]]

\* what the search of collection n can return to the tool
SearchFound(stores, failAt, l) ==
    IF failAt = 0 /\ CollectionName[l] \in Range(stores)
    THEN TopK(collections[CollectionName[l]], RETRIEVAL_K)
    ELSE {<<>>}

\* one call of the search_knowledge tool made for user_level: its answer, and
\* the stores it opened stay open
SearchStep(user_level) ==
    \E creatable \in SUBSET (Range(permitted(user_level)) \ _vector_stores) :
      LET stores == get_accessible_vector_stores(user_level, creatable)
      IN  \E failAt \in 0..Len(stores) :
          \E f1 \in SearchFound(stores, failAt, 1), f2 \in SearchFound(stores, failAt, 2),
             f3 \in SearchFound(stores, failAt, 3), f4 \in SearchFound(stores, failAt, 4) :
             /\ search' = search_knowledge(
                              user_level, creatable, failAt,
                              [n \in AllCollections |->
                                  <<f1, f2, f3, f4>>[LevelOfCollection(n)]])
             /\ _vector_stores' = _vector_stores \cup Range(stores)

SearchKnowledge ==
    /\ \E user_level \in LevelInputs : SearchStep(user_level)
    /\ UNCHANGED <<knowledgeVars, mergeVars, historyVars, extVars>>

\* the knowledge base as the service finds it: every document of the pool is in
\* one collection or in none; no collection is opened yet
InitSearch ==
    /\ \E place \in [1..MaxDocs -> 0..4] :
         collections = [n \in AllCollections |->
                           {PoolDocument(k) : k \in {j \in 1..MaxDocs :
                                                   place[j] = LevelOfCollection(n)}}]
    /\ vector_stores = {}
    /\ ret = NoCall
    /\ InitIdleMerge
    /\ InitIdleSearch
    /\ InitIdleHistory
    /\ InitIdleExt

NextSearch == SearchKnowledge

SpecSearch == InitSearch /\ [][NextSearch]_vars

(***************************************************************************)
(* QdrantChatMessageHistory. A message is its type, its content (the n-th  *)
(* message handed to the history has content n) and how it came into the   *)
(* list: through add_message, add_message_async or from the store.         *)
(***************************************************************************)
\* self.session_id, and the session of another conversation
session_id == "s1"

OtherSession == "s2"

\* the turns of a conversation alternate: the user's input, then the answer
MessageType(n) == IF n % 2 = 1 THEN "human" ELSE "ai"

Message(type, content, via) == [type |-> type, content |-> content, via |-> via]

\* the payload of a point of the chatHistory collection
Point(sid, type, content, timestamp, message_index) ==
    [session_id |-> sid, type |-> type, content |-> content,
     timestamp |-> timestamp, message_index |-> message_index]

\* "human" if isinstance(message, HumanMessage) else "ai"
payload_type(message) == IF message.type = "human" THEN "human" ELSE "ai"

\* client.scroll with the session_id filter: the points of the session
scroll(sid) == SelectSeq(store, LAMBDA p : p.session_id = sid)

\* s is sorted by timestamp; p goes after every point that is not later than it
InsertByTimestamp(s, p) ==
    LET n == Cardinality({i \in 1..Len(s) : s[i].timestamp <= p.timestamp})
    IN  SubSeq(s, 1, n) \o <<p>> \o SubSeq(s, n + 1, Len(s))

RECURSIVE SortByTimestamp(_)
\* sorted(search_result[0], key=lambda x: x.payload.get("timestamp", 0))
SortByTimestamp(s) ==
    IF s = <<>> THEN <<>>
    ELSE InsertByTimestamp(SortByTimestamp(Front(s)), Last(s))

RECURSIVE reconstruct(_)
\* the loop over the sorted points: a HumanMessage or an AIMessage per point,
\* a point of any other type is passed over
reconstruct(points) ==
    IF points = <<>> THEN <<>>
    ELSE LET p == Last(points)
         IN  reconstruct(Front(points))
             \o (IF p.type \in {"human", "ai"}
                 THEN <<Message(p.type, p.content, "store")>>
                 ELSE <<>>)

\* _load_messages: the list and the counter it leaves (it leaves _loaded true)
_load_messages(scrollFails) ==
    IF _loaded
    THEN [messages |-> _messages, counter |-> _message_counter]
    ELSE IF scrollFails
         THEN [messages |-> <<>>, counter |-> _message_counter]
         ELSE LET all == _messages \o reconstruct(SortByTimestamp(scroll(session_id)))
              IN  [messages |-> all, counter |-> Len(all)]

\* _store_message_async: the store after it; a failed upsert is logged and
\* leaves the store as it was
_store_message_async(message, message_index, upsertFails) ==
    IF upsertFails THEN store
    ELSE Append(store,
                Point(session_id, payload_type(message), message.content,
                      clock, message_index))

\* datetime.now() is later at each call; the timestamp of a point that is not
\* stored is seen by nobody, so only the stored ones are counted
tick(upsertFails) == IF upsertFails THEN clock ELSE clock + 1

add_message_unqueued(message) ==
    [messages |-> Append(_messages, message), pending |-> _pending_messages]

\* add_message, under the lock: the two lists after it
add_message(message) ==
    [messages |-> Append(_messages, message),
     pending |-> Append(_pending_messages, message)]

\* the messages property
messages == _messages

\* a step of a call: no call of the class lets an exception out (every store
\* access is inside a try whose handler logs), so raised is never set
HistoryCall(op, message, store_failed) ==
    [op |-> op, message |-> message, store_failed |-> store_failed, raised |-> FALSE]

AddMessage ==
    /\ added < MaxMessages
    /\ LET message == Message(MessageType(added + 1), added + 1, "add_message")
           after == add_message(message)
       IN  /\ _messages' = after.messages
           /\ _pending_messages' = after.pending
           /\ hcall' = HistoryCall("add_message", message, FALSE)
    /\ added' = added + 1
    /\ UNCHANGED <<_message_counter, _loaded, store, clock, flush>>
    /\ UNCHANGED <<knowledgeVars, mergeVars, searchVars, extVars>>

\* add_message_async: _load_messages, the append, _store_message_async with the
\* counter as index
AddMessageAsync ==
    /\ added < MaxMessages
    /\ \E upsertFails \in BOOLEAN,
          scrollFails \in (IF _loaded THEN {FALSE} ELSE BOOLEAN) :
         LET message == Message(MessageType(added + 1), added + 1, "add_message_async")
             loaded == _load_messages(scrollFails)
         IN  /\ _messages' = Append(loaded.messages, message)
             /\ _message_counter' = loaded.counter + 1
             /\ store' = _store_message_async(message, loaded.counter, upsertFails)
             /\ hcall' = HistoryCall("add_message_async", message,
                                     scrollFails \/ upsertFails)
             /\ clock' = tick(upsertFails)
    /\ _loaded' = TRUE
    /\ added' = added + 1
    /\ UNCHANGED <<_pending_messages, flush>>
    /\ UNCHANGED <<knowledgeVars, mergeVars, searchVars, extVars>>

\* a copy of the queue that leaves the queue as it is
take_pending_uncleared(pending) ==
    [messages_to_store |-> pending, pending |-> pending]

\* messages_to_store = self._pending_messages.copy() and
\* self._pending_messages.clear(), both under the lock
take_pending(pending) ==
    [messages_to_store |-> pending, pending |-> <<>>]

\* flush_pending_messages, the part under the lock; with nothing pending the
\* call returns
FlushBegin(f) ==
    /\ flush[f].pc = "idle"
    /\ LET taken == take_pending(_pending_messages)
           messages_to_store == taken.messages_to_store
           starting_index == _message_counter - Len(messages_to_store)
       IN  /\ flush' = [flush EXCEPT ![f] =
                           IF messages_to_store = <<>> THEN IdleFlush
                           ELSE [pc |-> "storing",
                                 messages_to_store |-> messages_to_store,
                                 starting_index |-> starting_index, i |-> 0]]
           /\ _pending_messages' = taken.pending
    /\ hcall' = HistoryCall("flush_pending_messages", NoMessage, FALSE)
    /\ UNCHANGED <<_messages, _message_counter, _loaded, store, clock, added>>
    /\ UNCHANGED <<knowledgeVars, mergeVars, searchVars, extVars>>

\* flush_pending_messages, one turn of its loop; after the last one it returns
FlushStore(f) ==
    /\ flush[f].pc = "storing"
    /\ \E upsertFails \in BOOLEAN :
         LET message == flush[f].messages_to_store[flush[f].i + 1]
             message_index == flush[f].starting_index + flush[f].i
         IN  /\ store' = _store_message_async(message, message_index, upsertFails)
             /\ hcall' = HistoryCall("flush_pending_messages", message,
                                     upsertFails)
             /\ clock' = tick(upsertFails)
    /\ flush' = [flush EXCEPT ![f] =
                    IF flush[f].i + 1 = Len(flush[f].messages_to_store)
                    THEN IdleFlush
                    ELSE [flush[f] EXCEPT !.i = flush[f].i + 1]]
    /\ UNCHANGED <<_messages, _pending_messages, _message_counter, _loaded, added>>
    /\ UNCHANGED <<knowledgeVars, mergeVars, searchVars, extVars>>

\* clear
Clear ==
    /\ _messages' = <<>>
    /\ _pending_messages' = <<>>
    /\ _message_counter' = 0
    /\ hcall' = HistoryCall("clear", NoMessage, FALSE)
    /\ UNCHANGED <<_loaded, store, clock, flush, added>>
    /\ UNCHANGED <<knowledgeVars, mergeVars, searchVars, extVars>>

\* clear_async: the points of the session are deleted, then the lists cleared;
\* a failed delete is logged and leaves everything as it was
ClearAsync ==
    /\ \E deleteFails \in BOOLEAN :
         /\ hcall' = HistoryCall("clear_async", NoMessage, deleteFails)
         /\ IF deleteFails
            THEN UNCHANGED <<_messages, _pending_messages, _message_counter, store>>
            ELSE /\ store' = SelectSeq(store, LAMBDA p : p.session_id # session_id)
                 /\ _messages' = <<>>
                 /\ _pending_messages' = <<>>
                 /\ _message_counter' = 0
    /\ UNCHANGED <<_loaded, clock, flush, added>>
    /\ UNCHANGED <<knowledgeVars, mergeVars, searchVars, extVars>>

\* aget_messages: _load_messages, then a copy of the list
AgetMessages ==
    /\ \E scrollFails \in (IF _loaded THEN {FALSE} ELSE BOOLEAN) :
         LET loaded == _load_messages(scrollFails)
         IN  /\ _messages' = loaded.messages
             /\ _message_counter' = loaded.counter
             /\ hcall' = HistoryCall("aget_messages", NoMessage, scrollFails)
    /\ _loaded' = TRUE
    /\ UNCHANGED <<_pending_messages, store, clock, flush, added>>
    /\ UNCHANGED <<knowledgeVars, mergeVars, searchVars, extVars>>

\* what the store holds when the history is made: nothing, or an earlier turn
\* of this session and a turn of another session
PriorStores ==
    { <<>>,
      << Point(session_id, "human", 101, -2, 0), Point(OtherSession, "ai", 201, -1, 0) >> }

InitHistory ==
    /\ NewHistory
    /\ store \in PriorStores
    /\ clock = 0
    /\ InitIdleKnowledge
    /\ InitIdleMerge
    /\ InitIdleSearch
    /\ InitIdleExt

NextHistory ==
    \/ AddMessage
    \/ AddMessageAsync
    \/ \E f \in Flushers : FlushBegin(f)
    \/ \E f \in Flushers : FlushStore(f)
    \/ Clear
    \/ ClearAsync
    \/ AgetMessages

SpecHistory == InitHistory /\ [][NextHistory]_vars

\* add_message_async up to its call of _store_message_async: _load_messages
\* and the append; a call of another thread can come before the rest
AddAsyncAppend ==
    /\ added < MaxMessages
    /\ adding = NoMessage
    /\ \E scrollFails \in (IF _loaded THEN {FALSE} ELSE BOOLEAN) :
         LET message == Message(MessageType(added + 1), added + 1, "add_message_async")
             loaded == _load_messages(scrollFails)
         IN  /\ _messages' = Append(loaded.messages, message)
             /\ _message_counter' = loaded.counter
             /\ hcall' = HistoryCall("add_message_async", message, scrollFails)
             /\ adding' = message
    /\ _loaded' = TRUE
    /\ added' = added + 1
    /\ UNCHANGED <<_pending_messages, store, clock, flush>>
    /\ UNCHANGED <<knowledgeVars, mergeVars, searchVars, toolVars, agentVars,
                   managerVars, sqlVars, embedVars>>

\* the rest of add_message_async: _store_message_async takes the counter as
\* the index and advances it under the lock, then writes the point
AddAsyncStore ==
    /\ adding # NoMessage
    /\ \E upsertFails \in BOOLEAN :
         /\ store' = _store_message_async(adding, _message_counter, upsertFails)
         /\ hcall' = HistoryCall("add_message_async", adding, upsertFails)
         /\ clock' = tick(upsertFails)
    /\ _message_counter' = _message_counter + 1
    /\ adding' = NoMessage
    /\ UNCHANGED <<_messages, _pending_messages, _loaded, flush, added>>
    /\ UNCHANGED <<knowledgeVars, mergeVars, searchVars, toolVars, agentVars,
                   managerVars, sqlVars, embedVars>>

NextHistoryThreads == NextHistory \/ AddAsyncAppend \/ AddAsyncStore

\* one history called from several threads: the synchronous calls of other
\* threads come between the statements of add_message_async as well
SpecHistoryThreads == InitHistory /\ [][NextHistoryThreads]_vars

\* one history on which only add_message and flush_pending_messages are
\* called, by any number of callers in any order
NextAddFlush ==
    \/ AddMessage
    \/ \E f \in Flushers : FlushBegin(f)
    \/ \E f \in Flushers : FlushStore(f)

SpecAddFlush == InitHistory /\ [][NextAddFlush]_vars

\* AgentService._get_session_history: a new QdrantChatMessageHistory of the
\* session over the same store; a flush of the history it replaces that is
\* still running keeps its own list and goes on writing
GetSessionHistory ==
    /\ _messages' = <<>>
    /\ _loaded' = FALSE
    /\ _pending_messages' = <<>>
    /\ _message_counter' = 0
    /\ hcall' = HistoryCall("_get_session_history", NoMessage, FALSE)
    /\ UNCHANGED <<store, clock, flush, added>>
    /\ UNCHANGED <<knowledgeVars, mergeVars, searchVars, extVars>>

NextRehydrate == NextHistory \/ GetSessionHistory

\* the histories of one session, one after the other, over one store
SpecRehydrate == InitHistory /\ [][NextRehydrate]_vars

\* the scheduling the code gives: a flush_pending_messages that was called goes
\* through its loop to the end; nothing in the repository calls it, so no call
\* of it is ever due
SpecHistoryLive ==
    InitHistory /\ [][NextHistory]_vars /\ \A f \in Flushers : WF_vars(FlushStore(f))

(***************************************************************************)
(* The agent tools (app/core/tools.py, app/core/isa95_tools.py). The value *)
(* of a call is a pair: what it says and how many items it found; a call   *)
(* either returns a value or raises an exception.                          *)
(***************************************************************************)
Return(value) == [raised |-> FALSE, exc |-> "", value |-> value]

Raise(exc) == [raised |-> TRUE, exc |-> exc, value |-> <<>>]

try_except_missing(body, message) == body

\* try: ... except Exception as e: return f"{message}: {str(e)}"
try_except(body, message) ==
    IF body.raised THEN Return(<<message, body.exc>>) ELSE body

\* self.level_names
level_names == [l \in {1, 2, 3, 4} |->
                   <<"Field & Control System", "Supervisory", "Planning", "Management">>[l]]

\* RetrievalService.get_available_knowledge_for_level: a failure of
\* client.get_collection is kept inside the answer
get_available_knowledge_for_level(level) ==
    IF level \notin DOMAIN collection_levels
    THEN Raise("ValueError")
    ELSE Return([level_name |-> level_names[level],
                 available_knowledge_levels |->
                     [i \in 1..Len(collection_levels[level]) |->
                         LevelOfCollection(collection_levels[level][i])]])

\* retrieve_documents as a tool calls it: the list, or the ValueError
documents_of(level, strategy, fails, found) ==
    LET call == retrieve_documents(level, strategy, IF fails THEN 1 ELSE 0, found)
    IN  IF call.outcome = "ValueError" THEN Raise("ValueError") ELSE Return(call.out)

\* RetrievalService.search_similar_documents: the documents of a basic
\* retrieval whose score is at least the threshold
search_similar_documents(level, score_threshold, fails, found) ==
    LET documents == documents_of(level, "basic", fails, found)
    IN  IF documents.raised THEN documents
        ELSE Return(SelectSeq(documents.value,
                              LAMBDA d : sort_key(d) >= score_threshold))

\* RetrievalService has no method get_collection_stats: its body stands, out of
\* reach, after the return of get_available_knowledge_for_level
get_collection_stats == Raise("AttributeError")

\* DocumentRetrievalTool._run
DocumentRetrievalTool_run(isa_level, strategy, fails, found) ==
    try_except(
        LET level_info == get_available_knowledge_for_level(isa_level)
            documents == documents_of(isa_level, strategy, fails, found)
        IN  IF level_info.raised THEN level_info
            ELSE IF documents.raised THEN documents
            ELSE IF documents.value = <<>>
                 THEN Return(<<"No relevant documents found", 0>>)
                 ELSE Return(<<"Found relevant documents", Len(documents.value)>>),
        "Error retrieving documents")

\* KnowledgeSearchTool._run; focus_level 0 is None
KnowledgeSearchTool_run(isa_level, score_threshold, focus_level, fails, found) ==
    try_except(
        LET level_info == get_available_knowledge_for_level(isa_level)
            results == search_similar_documents(isa_level, score_threshold, fails, found)
            \* no document of the model names its source, so the focus filter
            \* keeps none
            filtered == IF focus_level # 0 THEN <<>> ELSE results.value
        IN  IF level_info.raised THEN level_info
            ELSE IF /\ focus_level # 0
                    /\ focus_level \notin Range(level_info.value.available_knowledge_levels)
                 THEN Return(<<"Focus level is not available", 0>>)
            ELSE IF results.raised THEN results
            ELSE IF filtered = <<>>
                 THEN Return(<<"No knowledge found above threshold", 0>>)
                 ELSE Return(<<"Found relevant knowledge items", Len(filtered)>>),
        "Error searching knowledge")

\* DocumentSummaryTool._run
DocumentSummaryTool_run(level, fails, found) ==
    try_except(
        LET documents == documents_of(level, "basic", fails, found)
        IN  IF documents.raised THEN documents
            ELSE IF documents.value = <<>>
                 THEN Return(<<"No documents found to summarize", 0>>)
                 ELSE Return(<<"Summary of documents", Len(documents.value)>>),
        "Error creating summary")

RECURSIVE total_documents(_)
\* the loop over stats.items(): total_documents += points_count for every
\* collection whose statistics are no error
total_documents(stats) ==
    IF stats = <<>> THEN 0
    ELSE total_documents(Front(stats))
         + (IF Last(stats).error THEN 0 ELSE Last(stats).points_count)

\* CollectionStatsTool._run
CollectionStatsTool_run ==
    try_except(
        LET stats == get_collection_stats
        IN  IF stats.raised THEN stats
            ELSE Return(<<"Knowledge Base Statistics", total_documents(stats.value)>>),
        "Error retrieving statistics")

\* get_knowledge_stats, GET /knowledge/stats: an exception becomes the answer
\* HTTP 500
get_knowledge_stats ==
    LET stats == get_collection_stats
    IN  IF stats.raised THEN Return(<<"HTTPException 500", stats.exc>>)
        ELSE Return(<<"collections", total_documents(stats.value)>>)

\* detailed_health_check, GET /health/detailed: an exception becomes the
\* answer "unhealthy"
detailed_health_check ==
    LET collection_stats == get_collection_stats
    IN  IF collection_stats.raised THEN Return(<<"unhealthy", collection_stats.exc>>)
        ELSE Return(<<"healthy", total_documents(collection_stats.value)>>)

RECURSIVE levels_with_documents(_, _, _, _, _)
\* the loop over the levels from..to of a tool: the number of levels whose
\* retrieval gave documents, or the exception of the first level that raises
\* (self.level_names[level] raises KeyError for a level outside 1..4)
levels_with_documents(from, to, strategy, fails, found) ==
    IF from > to THEN Return(0)
    ELSE IF from \notin DOMAIN level_names THEN Raise("KeyError")
    ELSE LET documents == documents_of(from, strategy, fails, found)
             rest == levels_with_documents(from + 1, to, strategy, fails, found)
         IN  IF documents.raised THEN documents
             ELSE IF rest.raised THEN rest
             ELSE Return(rest.value + (IF documents.value # <<>> THEN 1 ELSE 0))

\* ISA95LevelAnalysisTool._run
ISA95LevelAnalysisTool_run(start_level, end_level, fails, found) ==
    try_except(
        IF start_level > end_level
        THEN Return(<<"Error: start_level must be <= end_level", 0>>)
        ELSE LET n == levels_with_documents(start_level, end_level, "hierarchical",
                                            fails, found)
             IN  IF n.raised THEN n
                 ELSE Return(<<"ISA-95 Cross-Level Analysis", n.value>>),
        "Error performing level analysis")

\* IntegrationPointsTool._run
IntegrationPointsTool_run(source_level, target_level, fails, found) ==
    try_except(
        IF source_level \notin DOMAIN level_names \/ target_level \notin DOMAIN level_names
        THEN Raise("KeyError")
        ELSE LET source_docs == documents_of(source_level, "basic", fails, found)
                 target_docs == documents_of(target_level, "basic", fails, found)
             IN  IF source_docs.raised THEN source_docs
                 ELSE IF target_docs.raised THEN target_docs
                 ELSE Return(<<"Integration Points Analysis",
                               Len(source_docs.value) + Len(target_docs.value)>>),
        "Error analyzing integration points")

\* ISA95ComplianceTool._run with focus_levels = [from, ..., to]: a level that is
\* not in level_names is passed over
ISA95ComplianceTool_run(from, to, fails, found) ==
    try_except(
        LET lo == IF from < 1 THEN 1 ELSE from
            hi == IF to > 4 THEN 4 ELSE to
            n == levels_with_documents(lo, hi, "comprehensive", fails, found)
        IN  IF n.raised THEN n
            ELSE Return(<<"ISA-95 Compliance Check", n.value>>),
        "Error checking compliance")

\* score_threshold, in the unit of the scores
ThresholdInputs == {0, 15}

ToolCalled(name, level, result) ==
    [name |-> name, level |-> level, raised |-> result.raised, exc |-> result.exc,
     observation |-> result.value]

\* what the searches of the four collections can give to a tool
Founds ==
    {[n \in AllCollections |-> <<f1, f2, f3, f4>>[LevelOfCollection(n)]] :
        f1 \in TopK(collections[CollectionName[1]], 3),
        f2 \in TopK(collections[CollectionName[2]], 3),
        f3 \in TopK(collections[CollectionName[3]], 3),
        f4 \in TopK(collections[CollectionName[4]], 3)}

\* the calls of the seven tools, over their arguments: BaseTool.run hands the
\* arguments to _run and gives its value, or lets its exception through
ToolRuns(fails, found) ==
    {ToolCalled("document_retrieval", a,
                DocumentRetrievalTool_run(a, strategy, fails, found)) :
        a \in LevelInputs, strategy \in StrategyInputs}
    \cup {ToolCalled("knowledge_search", a,
                     KnowledgeSearchTool_run(a, threshold, focus, fails, found)) :
             a \in LevelInputs, threshold \in ThresholdInputs, focus \in 0..4}
    \cup {ToolCalled("document_summary", a, DocumentSummaryTool_run(a, fails, found)) :
             a \in LevelInputs}
    \cup {ToolCalled("collection_stats", 0, CollectionStatsTool_run)}
    \cup {ToolCalled("isa95_level_analysis", a,
                     ISA95LevelAnalysisTool_run(a, b, fails, found)) :
             a \in LevelInputs, b \in LevelInputs}
    \cup {ToolCalled("integration_points_analysis", a,
                     IntegrationPointsTool_run(a, b, fails, found)) :
             a \in LevelInputs, b \in LevelInputs}
    \cup {ToolCalled("isa95_compliance_check", a,
                     ISA95ComplianceTool_run(a, b, fails, found)) :
             a \in LevelInputs, b \in LevelInputs}

ToolCallResults == UNION {ToolRuns(fails, found) : fails \in BOOLEAN, found \in Founds}

\* a tool is called
ToolCall ==
    /\ tool' \in ToolCallResults
    /\ UNCHANGED <<baseVars, agentVars, managerVars, sqlVars>>

\* a request to one of the two endpoints that read the collection statistics
StatsRequest ==
    /\ \/ tool' = ToolCalled("/knowledge/stats", 0, get_knowledge_stats)
       \/ tool' = ToolCalled("/health/detailed", 0, detailed_health_check)
    /\ UNCHANGED <<baseVars, agentVars, managerVars, sqlVars>>

\* the knowledge base as the tools find it: the k-th document of the pool is in
\* the collection of level k (levels above 4 excepted); any of the stores may
\* have failed to initialise
InitTools ==
    /\ collections = [n \in AllCollections |->
                         {PoolDocument(k) : k \in {j \in 1..MaxDocs :
                                                     j = LevelOfCollection(n)}}]
    /\ vector_stores \in SUBSET AllCollections
    /\ ret = NoCall
    /\ InitIdleMerge
    /\ InitIdleSearch
    /\ InitIdleHistory
    /\ InitIdleExt

\* the seven tools are those of BejoAgent and search_knowledge is the one tool
\* of AgentService: an agent calls the ones or the other
NextTools ==
    \/ search = NoSearch /\ ToolCall
    \/ search = NoSearch /\ StatsRequest
    \/ tool = NoToolCall /\ SearchKnowledge

SpecTools == InitTools /\ [][NextTools]_vars

(***************************************************************************)
(* The agent loop: the AgentExecutor that BejoAgent._create_agent and      *)
(* AgentService.create_agent_executor configure, run by BejoAgent.chat and *)
(* AgentService.chat_with_history.                                         *)
(***************************************************************************)
\* BejoAgent._create_agent: max_iterations=5
core_max_iterations == 5

\* AgentService.create_agent_executor: max_iterations=3
service_max_iterations == 3

\* handle_parsing_errors=True, in both
handle_parsing_errors == TRUE

Executors == {"BejoAgent", "AgentService"}

max_iterations_swapped(executor) ==
    IF executor = "BejoAgent" THEN service_max_iterations ELSE core_max_iterations

max_iterations(executor) ==
    IF executor = "BejoAgent" THEN core_max_iterations ELSE service_max_iterations

\* the run ends: the final answer, the answer of a stopped loop, or the error
\* text that the except clause of chat / chat_with_history yields
Finish(output) ==
    [run EXCEPT !.pc = "done", !.output = output, !.steps = run.steps + 1]

\* a step ended with an observation: iterations += 1, and the loop goes on
\* while iterations < max_iterations; after that the executor answers "Agent
\* stopped due to iteration limit or time limit."
Observed ==
    IF run.iterations + 1 >= max_iterations(run.executor)
    THEN [run EXCEPT !.pc = "done", !.output = "stopped",
                     !.iterations = run.iterations + 1, !.steps = run.steps + 1]
    ELSE [run EXCEPT !.iterations = run.iterations + 1, !.steps = run.steps + 1]

\* BejoAgent.chat / AgentService.chat_with_history: a run of the loop starts
Chat ==
    /\ run.pc # "running"
    /\ \/ run' = [executor |-> "BejoAgent", user_level |-> 0, pc |-> "running",
                  iterations |-> 0, steps |-> 0, output |-> ""]
       \/ \E user_level \in LevelInputs :
            run' = [executor |-> "AgentService", user_level |-> user_level,
                    pc |-> "running", iterations |-> 0, steps |-> 0, output |-> ""]
    /\ UNCHANGED <<baseVars, toolVars, managerVars, sqlVars>>

\* one step of the loop: the LLM is asked, and what it emits decides
AgentStep ==
    /\ run.pc = "running"
    /\ \/ \* "Final Answer: ..."
          /\ run' = Finish("final")
          /\ UNCHANGED searchVars
       \/ \* the call of the LLM raises: the except clause yields the error text
          /\ run' = Finish("error")
          /\ UNCHANGED searchVars
       \/ \* text that does not parse, or a tool that does not exist: the error
          \* is the observation
          /\ run' = IF handle_parsing_errors THEN Observed ELSE Finish("error")
          /\ UNCHANGED searchVars
       \/ \* an action of BejoAgent: one of its seven tools runs
          /\ run.executor = "BejoAgent"
          /\ \E result \in ToolCallResults :
               run' = IF result.raised THEN Finish("error") ELSE Observed
          /\ UNCHANGED searchVars
       \/ \* an action of AgentService: search_knowledge runs
          /\ run.executor = "AgentService"
          /\ SearchStep(run.user_level)
          /\ run' = Observed
    /\ UNCHANGED <<knowledgeVars, mergeVars, historyVars, toolVars, managerVars, sqlVars, embedVars, asyncVars>>

NextAgent == Chat \/ AgentStep

\* the knowledge base is there and every store of the service is initialised
InitAgent == InitTools /\ vector_stores = AllCollections

SpecAgent == InitAgent /\ [][NextAgent]_vars

\* a step of a running loop is taken: the call of the LLM returns or raises
SpecAgentLive == SpecAgent /\ WF_vars(AgentStep)

(***************************************************************************)
(* AgentManager and the session histories of its agents                    *)
(* (app/core/agent.py, app/api/routes/chat.py). A BejoAgent is known by    *)
(* the number of its construction; a session history is the list of its    *)
(* turns.                                                                  *)
(***************************************************************************)
\* agents made in one run of the model
MaxAgents == 2
\* turns of one session history
MaxTurns == 2

\* self.default_agent_id
default_agent_id == "default"

\* the agent_id of a request: absent, the default's, or another
AgentIdInputs == {"None", "default", "a1"}

ModelNameInputs == {"gemini-2.0-flash", "gemini-1.5-pro"}

SessionInputs == {"s1", "s2"}

\* d[key] = value
Put(d, key, value) ==
    [k \in DOMAIN d \cup {key} |-> IF k = key THEN value ELSE d[k]]

\* del d[key]
Del(d, key) == [k \in DOMAIN d \ {key} |-> d[k]]

\* BejoAgent.__init__
BejoAgent(instance, model_name) ==
    [instance |-> instance, model_name |-> model_name, chat_histories |-> EmptyDict]

\* if agent_id is None: agent_id = self.default_agent_id
agent_key(agent_id) == IF agent_id = "None" THEN default_agent_id ELSE agent_id

get_or_create_agent_anew(agent_id, model_name) ==
    Put(agents, agent_key(agent_id), BejoAgent(created + 1, model_name))

\* AgentManager.get_or_create_agent: the registry after it
get_or_create_agent(agent_id, model_name) ==
    IF agent_key(agent_id) \notin DOMAIN agents
    THEN Put(agents, agent_key(agent_id), BejoAgent(created + 1, model_name))
    ELSE agents

\* the number of agents made, after a get_or_create_agent that left `registry`
created_after(registry) ==
    IF \E k \in DOMAIN registry : registry[k].instance = created + 1
    THEN created + 1
    ELSE created

\* BejoAgent.get_session_history: the histories of the agent after it
get_session_history(agent, session) ==
    IF session \notin DOMAIN agent.chat_histories
    THEN Put(agent.chat_histories, session, <<>>)
    ELSE agent.chat_histories

\* clear_session_history that empties every session of the agent
clear_session_history_all(agent, session) ==
    IF session \in DOMAIN agent.chat_histories
    THEN [histories |-> [s \in DOMAIN agent.chat_histories |-> <<>>], result |-> TRUE]
    ELSE [histories |-> agent.chat_histories, result |-> FALSE]

\* BejoAgent.clear_session_history: the histories after it, and its result
clear_session_history(agent, session) ==
    IF session \in DOMAIN agent.chat_histories
    THEN [histories |-> [agent.chat_histories EXCEPT ![session] = <<>>], result |-> TRUE]
    ELSE [histories |-> agent.chat_histories, result |-> FALSE]

\* remove_agent without the test against default_agent_id
remove_agent_any(agent_id) ==
    IF agent_id \in DOMAIN agents
    THEN [agents |-> Del(agents, agent_id), result |-> TRUE]
    ELSE [agents |-> agents, result |-> FALSE]

\* AgentManager.remove_agent: the registry after it, and its result
remove_agent(agent_id) ==
    IF agent_id \in DOMAIN agents /\ agent_id # default_agent_id
    THEN [agents |-> Del(agents, agent_id), result |-> TRUE]
    ELSE [agents |-> agents, result |-> FALSE]

ManagerCall(op, agent_id, session, returned, result) ==
    [op |-> op, agent_id |-> agent_id, session_id |-> session, returned |-> returned,
     result |-> result]

\* a new agent can still be made, or none is needed
CanServe(agent_id) == agent_key(agent_id) \in DOMAIN agents \/ created < MaxAgents

\* AgentManager.get_or_create_agent
GetOrCreateAgent ==
    /\ \E agent_id \in AgentIdInputs, model_name \in ModelNameInputs :
         LET registry == get_or_create_agent(agent_id, model_name)
         IN  /\ CanServe(agent_id)
             /\ agents' = registry
             /\ created' = created_after(registry)
             /\ mcall' = ManagerCall("get_or_create_agent", agent_key(agent_id), "",
                                     registry[agent_key(agent_id)].instance, TRUE)
    /\ UNCHANGED <<baseVars, toolVars, agentVars, sqlVars>>

\* AgentManager.remove_agent
RemoveAgent ==
    /\ \E agent_id \in AgentIdInputs :
         LET after == remove_agent(agent_id)
         IN  /\ agents' = after.agents
             /\ mcall' = ManagerCall("remove_agent", agent_id, "", 0, after.result)
    /\ UNCHANGED <<created, baseVars, toolVars, agentVars, sqlVars>>

\* chat_stream / chat_sync: the agent of the request is fetched or made, and
\* the run adds the turn to the history of the session
ChatRequest ==
    /\ \E agent_id \in AgentIdInputs, model_name \in ModelNameInputs,
          session \in SessionInputs :
         LET registry == get_or_create_agent(agent_id, model_name)
             agent == registry[agent_key(agent_id)]
             histories == get_session_history(agent, session)
         IN  /\ CanServe(agent_id)
             /\ Len(histories[session]) < MaxTurns
             /\ agents' = [registry EXCEPT ![agent_key(agent_id)].chat_histories =
                               [histories EXCEPT ![session] =
                                   Append(histories[session], Len(histories[session]) + 1)]]
             /\ created' = created_after(registry)
             /\ mcall' = ManagerCall("chat", agent_key(agent_id), session,
                                     agent.instance, TRUE)
    /\ UNCHANGED <<baseVars, toolVars, agentVars, sqlVars>>

\* clear_session, DELETE /chat/sessions/{session_id}: the agent of the request
\* is fetched or made, then its clear_session_history is called
ClearSession ==
    /\ \E agent_id \in AgentIdInputs, session \in SessionInputs :
         LET registry == get_or_create_agent(agent_id, "gemini-2.0-flash")
             agent == registry[agent_key(agent_id)]
             after == clear_session_history(agent, session)
         IN  /\ CanServe(agent_id)
             /\ agents' = [registry EXCEPT ![agent_key(agent_id)].chat_histories =
                               after.histories]
             /\ created' = created_after(registry)
             /\ mcall' = ManagerCall("clear_session_history", agent_key(agent_id),
                                     session, agent.instance, after.result)
    /\ UNCHANGED <<baseVars, toolVars, agentVars, sqlVars>>

InitManager ==
    /\ InitIdleKnowledge
    /\ InitIdleMerge
    /\ InitIdleSearch
    /\ InitIdleHistory
    /\ InitIdleExt

NextManager == GetOrCreateAgent \/ RemoveAgent \/ ChatRequest \/ ClearSession

SpecManager == InitManager /\ [][NextManager]_vars

(***************************************************************************)
(* Properties of AgentManager.                                             *)
(***************************************************************************)
\* C15: the registry holds at most one agent per id, and a
\* get_or_create_agent for an id that is registered (None standing for
\* "default") returns the agent registered under it and leaves the registry,
\* with every agent's model and session histories, as it was, whatever
\* model_name the call passes.
C15_OneAgentPerId ==
    [][ /\ \A a, b \in DOMAIN agents' :
             agents'[a].instance = agents'[b].instance => a = b
        /\ (mcall'.op = "get_or_create_agent" /\ mcall'.agent_id \in DOMAIN agents)
           => /\ agents' = agents
              /\ mcall'.returned = agents[mcall'.agent_id].instance
        /\ (mcall'.op = "get_or_create_agent" /\ mcall'.agent_id \notin DOMAIN agents)
           => /\ mcall'.agent_id \in DOMAIN agents'
              /\ mcall'.returned = agents'[mcall'.agent_id].instance
              /\ \A k \in DOMAIN agents : agents'[k] = agents[k]
      ]_vars

\* C15's case: the default agent, made with one model, holds a turn, and a
\* later get_or_create_agent returned it
C15_Witness ==
    /\ mcall.op = "get_or_create_agent"
    /\ mcall.agent_id = "default"
    /\ "default" \in DOMAIN agents
    /\ mcall.returned = agents["default"].instance
    /\ agents["default"].model_name = "gemini-1.5-pro"
    /\ "s1" \in DOMAIN agents["default"].chat_histories
    /\ agents["default"].chat_histories["s1"] # <<>>
    /\ created >= 2

(***************************************************************************)
(* SQLTool (app/crew/tools/database.py). A text is the sequence of its     *)
(* characters. The database is known by its columns per table, which is    *)
(* what information_schema gives, and by the version of its data. The      *)
(* result cache is a cachetools.TTLCache: its entries in the order in      *)
(* which they were set, each with the time at which it expires; an entry   *)
(* also remembers the schema hash the tool held when it was set.           *)
(***************************************************************************)
\* the tool is built with SQLTool(db_uri, cache_ttl=1, cache_size=1)
cache_ttl == 1
cache_size == 1
\* the timer of the cache runs up to here
MaxTime == 2
\* versions of the data
MaxData == 2
\* chunks the splitter makes of a document
MaxChunks == 3

\* the characters str.strip() removes
Whitespace == {" ", "\t", "\n"}

LowerCase == <<"a", "b", "c", "d", "e", "f", "g", "h", "i", "j", "k", "l", "m",
               "n", "o", "p", "q", "r", "s", "t", "u", "v", "w", "x", "y", "z">>

UpperCase == <<"A", "B", "C", "D", "E", "F", "G", "H", "I", "J", "K", "L", "M",
               "N", "O", "P", "Q", "R", "S", "T", "U", "V", "W", "X", "Y", "Z">>

upper_char(c) ==
    IF \E i \in 1..Len(LowerCase) : LowerCase[i] = c
    THEN UpperCase[CHOOSE i \in 1..Len(LowerCase) : LowerCase[i] = c]
    ELSE c

\* str.upper
upper(s) == [i \in 1..Len(s) |-> upper_char(s[i])]

RECURSIVE lstrip(_)
lstrip(s) == IF s # <<>> /\ Head(s) \in Whitespace THEN lstrip(Tail(s)) ELSE s

RECURSIVE rstrip(_)
rstrip(s) ==
    IF s # <<>> /\ s[Len(s)] \in Whitespace THEN rstrip(SubSeq(s, 1, Len(s) - 1)) ELSE s

\* str.strip
strip(s) == rstrip(lstrip(s))

\* str.startswith with a tuple of prefixes
startswith(s, prefixes) ==
    \E p \in prefixes : Len(p) <= Len(s) /\ SubSeq(s, 1, Len(p)) = p

\* ("SELECT", "SHOW", "DESCRIBE", "EXPLAIN")
AllowedPrefixes ==
    { <<"S", "E", "L", "E", "C", "T">>, <<"S", "H", "O", "W">>,
      <<"D", "E", "S", "C", "R", "I", "B", "E">>, <<"E", "X", "P", "L", "A", "I", "N">> }

query_allowed_any(query) == Len(query) >= 0

\* query.strip().upper().startswith(("SELECT", "SHOW", "DESCRIBE", "EXPLAIN"))
query_allowed(query) == startswith(upper(strip(query)), AllowedPrefixes)

\* the queries a caller passes: "SHOW t", " show t\n", "DROP t" and " "
QueryInputs ==
    { <<"S", "H", "O", "W", " ", "t">>,
      <<" ", "s", "h", "o", "w", " ", "t", "\n">>,
      <<"D", "R", "O", "P", " ", "t">>,
      <<" ">> }

\* the params a caller passes: None and {"id": "1"}
ParamInputs ==
    { [none |-> TRUE, items |-> <<>>],
      [none |-> FALSE, items |-> << <<"id", "1">> >>] }

\* params = params or {}
params_or_empty(params) == [none |-> FALSE, items |-> params.items]

RECURSIVE json_items(_)
json_items(items) ==
    IF items = <<>> THEN <<>>
    ELSE <<items[1][1], ":", items[1][2]>>
         \o (IF Len(items) > 1 THEN <<",">> ELSE <<>>)
         \o json_items(Tail(items))

\* json.dumps(params, sort_keys=True) if params else "": the keys of the
\* params passed here are in order
param_str(params) ==
    IF ~params.none /\ params.items # <<>>
    THEN <<"{">> \o json_items(params.items) \o <<"}">>
    ELSE <<>>

\* hashlib.md5(text.encode()).hexdigest(): different texts, different digests
md5(text) == <<"md5", text>>

\* hashlib.md5((query + param_str).encode()).hexdigest()
cache_key(query, params) == md5(query \o param_str(params))

\* _update_schema_hash: md5 of json.dumps(self._columns)
schema_hash(columns) == md5(<<"json", columns>>)

\* the columns per table a database can have
Schemas == { EmptyDict, [t |-> <<"a">>], [t |-> <<"a", "b">>] }

\* connection.execute(text(query), params).fetchall()
fetchall(query, params) ==
    [query |-> query, params |-> params.items, columns |-> db.columns, data |-> db.data]

\* TTLCache.expire: the entries that have not expired at time t
expire(cache, t) == SelectSeq(cache, LAMBDA e : t < e.expires)

cache_contains_expired(cache, key, t) ==
    \E i \in 1..Len(cache) : cache[i].key = key /\ cache[i].expires <= t

\* TTLCache.__contains__
cache_contains(cache, key, t) ==
    \E i \in 1..Len(cache) : cache[i].key = key /\ t < cache[i].expires

\* TTLCache.__getitem__ of a key the cache contains
cache_get(cache, key) ==
    cache[CHOOSE i \in 1..Len(cache) : cache[i].key = key]

\* TTLCache.__setitem__
cache_set(cache, key, value, t, under) ==
    LET live == expire(cache, t)
        others == SelectSeq(live, LAMBDA e : e.key # key)
        room == IF Len(others) = Len(live) /\ Len(live) >= cache_size
                THEN Tail(live)
                ELSE others
    IN  Append(room, [key |-> key, value |-> value, expires |-> t + cache_ttl,
                      under |-> under])

\* check_schema_changes after a _fetch_metadata that did not raise
check_schema_changes ==
    LET changed == _schema_hash # schema_hash(db.columns)
    IN  [tables |-> DOMAIN db.columns,
         columns |-> db.columns,
         hash |-> schema_hash(db.columns),
         cache |-> IF changed THEN <<>> ELSE _cache,
         sample_data |-> IF changed THEN EmptyDict ELSE _sample_data,
         changed |-> changed]

\* the record of a call of _run: what it was given and what it gave, whether
\* the schema was found changed, whether the result came from the cache,
\* whether the query was executed, whether the database was read at all, the
\* hash under which a result served from the cache was set, and the hash the
\* tool holds at the end; turn tells a call from the one before it
SqlCall(query, params, outcome, rows, changed, hit, executed, accessed, under, hash) ==
    [turn |-> 1 - sqlcall.turn, query |-> query, params |-> params, outcome |-> outcome,
     rows |-> rows, changed |-> changed, hit |-> hit, executed |-> executed,
     accessed |-> accessed, under |-> under, hash |-> hash]

\* the ways the database can fail during one call
FailInputs == {"none", "metadata", "query"}

\* SQLTool._run
Run ==
    /\ \E query \in QueryInputs, params \in ParamInputs, fails \in FailInputs :
         LET checked == check_schema_changes
             key == cache_key(query, params_or_empty(params))
         IN  IF ~query_allowed(query)
             THEN /\ sqlcall' = SqlCall(query, params, "ValueError: not allowed", NoRows,
                                        FALSE, FALSE, FALSE, FALSE, NoHash,
                                        _schema_hash)
                  /\ UNCHANGED <<_tables, _columns, _sample_data, _cache, _schema_hash>>
             ELSE IF fails = "metadata"
             THEN /\ sqlcall' = SqlCall(query, params, "SQLAlchemyError", NoRows,
                                        FALSE, FALSE, FALSE, TRUE, NoHash,
                                        _schema_hash)
                  /\ UNCHANGED <<_tables, _columns, _sample_data, _cache, _schema_hash>>
             ELSE /\ _tables' = checked.tables
                  /\ _columns' = checked.columns
                  /\ _schema_hash' = checked.hash
                  /\ _sample_data' = checked.sample_data
                  /\ IF cache_contains(checked.cache, key, now)
                     THEN /\ _cache' = checked.cache
                          /\ sqlcall' = SqlCall(query, params, "returned",
                                                cache_get(checked.cache, key).value,
                                                checked.changed, TRUE, FALSE, TRUE,
                                                cache_get(checked.cache, key).under,
                                                checked.hash)
                     ELSE IF fails = "query"
                     THEN /\ _cache' = checked.cache
                          /\ sqlcall' = SqlCall(query, params,
                                                "ValueError: Query execution error",
                                                NoRows, checked.changed, FALSE, TRUE,
                                                TRUE, NoHash, checked.hash)
                     ELSE /\ _cache' = cache_set(checked.cache, key,
                                                 fetchall(query, params_or_empty(params)),
                                                 now, checked.hash)
                          /\ sqlcall' = SqlCall(query, params, "returned",
                                                fetchall(query, params_or_empty(params)),
                                                checked.changed, FALSE, TRUE, TRUE,
                                                checked.hash, checked.hash)
    /\ UNCHANGED <<db, now, baseVars, toolVars, agentVars, managerVars>>

\* the sample of a table: SELECT DISTINCT column FROM table LIMIT :limit, per
\* column
sample_of(table) == [columns |-> _columns'[table], data |-> db.data]

\* SQLTool.get_sample_data(): the metadata is loaded when no table is known
\* (_load_metadata_if_needed), then the tables without a sample are sampled;
\* a table or column that is no longer in the database makes the call raise
GetSampleData ==
    /\ \E fails \in {"none", "metadata"} :
         /\ IF _tables = {} /\ fails = "none"
            THEN /\ _tables' = DOMAIN db.columns
                 /\ _columns' = db.columns
                 /\ _schema_hash' = schema_hash(db.columns)
            ELSE UNCHANGED <<_tables, _columns, _schema_hash>>
         /\ IF /\ fails = "none"
               /\ \A table \in _tables' \ DOMAIN _sample_data :
                    /\ table \in DOMAIN db.columns
                    /\ Range(_columns'[table]) \subseteq Range(db.columns[table])
            THEN _sample_data' = [table \in _tables' \cup DOMAIN _sample_data |->
                                     IF table \in DOMAIN _sample_data
                                     THEN _sample_data[table]
                                     ELSE sample_of(table)]
            ELSE UNCHANGED _sample_data
    /\ UNCHANGED <<db, _cache, now, sqlcall, baseVars, toolVars, agentVars, managerVars>>

\* SQLTool._ttl_cache_func, the cache_function of the tool: the framework
\* calls it with the arguments and the result of a run that returned
CacheFunction ==
    /\ sqlcall.outcome = "returned"
    /\ LET query == strip(sqlcall.query)
       IN  IF startswith(upper(query), AllowedPrefixes)
           THEN _cache' = cache_set(_cache, cache_key(query, sqlcall.params),
                                    sqlcall.rows, now, _schema_hash)
           ELSE UNCHANGED _cache
    /\ UNCHANGED <<db, _tables, _columns, _sample_data, _schema_hash, now, sqlcall,
                   baseVars, toolVars, agentVars, managerVars>>

\* a table or a column is added to or dropped from the database
AlterSchema ==
    /\ \E columns \in Schemas \ {db.columns} : db' = [db EXCEPT !.columns = columns]
    /\ UNCHANGED <<_tables, _columns, _sample_data, _cache, _schema_hash, now, sqlcall,
                   baseVars, toolVars, agentVars, managerVars>>

\* rows are written to the database
ChangeData ==
    /\ db.data < MaxData
    /\ db' = [db EXCEPT !.data = db.data + 1]
    /\ UNCHANGED <<_tables, _columns, _sample_data, _cache, _schema_hash, now, sqlcall,
                   baseVars, toolVars, agentVars, managerVars>>

\* time passes
Tick ==
    /\ now < MaxTime
    /\ now' = now + 1
    /\ UNCHANGED <<db, _tables, _columns, _sample_data, _cache, _schema_hash, sqlcall,
                   baseVars, toolVars, agentVars, managerVars>>

InitSQL ==
    /\ InitIdleKnowledge
    /\ InitIdleMerge
    /\ InitIdleSearch
    /\ InitIdleHistory
    /\ tool = NoToolCall
    /\ run = NoRun
    /\ NewAgentManager
    /\ db \in [columns : Schemas, data : {1}]
    /\ NewSQLTool
    /\ InitIdleEmbed

NextSQL == Run \/ GetSampleData \/ CacheFunction \/ AlterSchema \/ ChangeData \/ Tick

SpecSQL == InitSQL /\ [][NextSQL]_vars

(***************************************************************************)
(* Properties of SQLTool.                                                  *)
(***************************************************************************)
\* the step is a call of _run
RunStep == sqlcall'.turn # sqlcall.turn

\* the call of the step got past the check of the query and the re-read of the
\* schema
RunChecked ==
    /\ RunStep
    /\ sqlcall'.outcome \in {"returned", "ValueError: Query execution error"}

\* the result cache holds an entry of this key that has not expired
Live(key) == \E i \in 1..Len(_cache) : _cache[i].key = key /\ now < _cache[i].expires

\* the stripped, upper-cased text of the query starts with one of the four words
Permitted(query) ==
    LET text == upper(strip(query))
    IN  \E p \in AllowedPrefixes :
          Len(p) <= Len(text) /\ \A i \in 1..Len(p) : text[i] = p[i]

\* C16: a result that _run serves from the cache was set under the schema
\* hash the tool holds at the end of that run; and a run that reads the schema
\* holds its hash afterwards, has emptied the result cache and the sample
\* data before the lookup when that hash differs from the recorded one (so
\* nothing is served from the cache and the cache holds at most the result
\* just stored), and has left both as they were when it does not differ
\* (but for the result it stores).
C16_SchemaHashGuardsCache ==
    /\ [](sqlcall.hit => sqlcall.under = sqlcall.hash)
    /\ [][ RunChecked =>
             /\ _schema_hash' = schema_hash(db.columns)
             /\ sqlcall'.hash = _schema_hash'
             /\ IF _schema_hash' # _schema_hash
                THEN /\ ~sqlcall'.hit
                     /\ _sample_data' = EmptyDict
                     /\ Len(_cache') <= 1
                     /\ \A i \in 1..Len(_cache') : _cache'[i].under = _schema_hash'
                ELSE /\ _sample_data' = _sample_data
                     /\ \/ _cache' = _cache
                        \/ /\ ~sqlcall'.hit
                           /\ _cache' = cache_set(_cache,
                                                  cache_key(sqlcall'.query,
                                                            params_or_empty(sqlcall'.params)),
                                                  sqlcall'.rows, now, _schema_hash')
         ]_vars

\* C17: when a run that returned rows is followed by a run with the same query
\* text and the same params that finds the schema unchanged, and the entry of
\* the query is in the cache and has not expired, the second run returns the
\* rows of the first and does not execute the query.
C17_SecondRunServedFromCache ==
    [][ ( /\ RunStep
          /\ sqlcall.outcome = "returned"
          /\ sqlcall'.query = sqlcall.query
          /\ sqlcall'.params = sqlcall.params
          /\ sqlcall'.outcome # "SQLAlchemyError"
          /\ ~sqlcall'.changed
          /\ Live(cache_key(sqlcall.query, params_or_empty(sqlcall.params))) )
        => /\ sqlcall'.outcome = "returned"
           /\ sqlcall'.rows = sqlcall.rows
           /\ ~sqlcall'.executed
      ]_vars

\* C17's case: a run with params was served from the cache the rows of an
\* earlier run, which the data of the database no longer is
C17_Witness ==
    /\ sqlcall.outcome = "returned"
    /\ sqlcall.hit
    /\ ~sqlcall.executed
    /\ sqlcall.params.items # <<>>
    /\ sqlcall.rows.data # db.data
    /\ sqlcall.rows.columns = db.columns

\* C18: a run of a query whose stripped, upper-cased text does not start with
\* SELECT, SHOW, DESCRIBE or EXPLAIN raises the ValueError of the check, reads
\* nothing from the database and leaves the result cache, the metadata, the
\* sample data and the schema hash as they were.
C18_DisallowedQueryRejected ==
    [][ (RunStep /\ ~Permitted(sqlcall'.query))
        => /\ sqlcall'.outcome = "ValueError: not allowed"
           /\ ~sqlcall'.accessed
           /\ ~sqlcall'.executed
           /\ UNCHANGED <<db, _cache, _tables, _columns, _sample_data, _schema_hash>>
      ]_vars

\* C18's case: DROP was rejected by a tool that holds a cached result and the
\* metadata of an earlier run
C18_Witness ==
    /\ sqlcall.outcome = "ValueError: not allowed"
    /\ sqlcall.query = <<"D", "R", "O", "P", " ", "t">>
    /\ _cache # <<>>
    /\ _tables # {}
    /\ _schema_hash # NoHash

(***************************************************************************)
(* Properties of RetrievalService.add_documents_to_level.                  *)
(***************************************************************************)
\* C19: a call of add_documents_to_level with a level L of 1..4 returns a
\* result of status "success" or "error", never raises, changes no collection
\* but bejo-knowledge-level-L, and on success has added documents to that
\* one, whose store the service holds; a call with another level raises
\* ValueError and changes no collection.
C19_AddTouchesTargetLevelOnly ==
    [][ ret'.op = "add_documents_to_level" =>
          IF ret'.level \in 1..4
          THEN /\ ret'.outcome \in {"success", "error"}
               /\ \A n \in AllCollections \ {CollectionName[ret'.level]} :
                     collections'[n] = collections[n]
               /\ collections[CollectionName[ret'.level]]
                     \subseteq collections'[CollectionName[ret'.level]]
               /\ ret'.outcome = "success" =>
                     /\ collections'[CollectionName[ret'.level]]
                           # collections[CollectionName[ret'.level]]
                     /\ CollectionName[ret'.level] \in vector_stores
          ELSE /\ ret'.outcome = "ValueError"
               /\ collections' = collections
      ]_vars

\* C19's case: documents were added to level 3 while the collections of
\* levels 1, 2 and 4 hold none
C19_Witness ==
    /\ ret.op = "add_documents_to_level"
    /\ ret.outcome = "success"
    /\ ret.level = 3
    /\ collections[CollectionName[3]] # {}
    /\ \A l \in {1, 2, 4} : collections[CollectionName[l]] = {}
    /\ vector_stores = AllCollections

(***************************************************************************)
(* Properties of the agent loop.                                           *)
(***************************************************************************)
\* C13: every run of the agent loop terminates: it performs at most 5 steps
\* with the executor of BejoAgent and at most 3 with that of AgentService, and
\* then ends with an output, whatever the LLM emits.
C13_AgentLoopTerminates ==
    /\ [](/\ run.executor = "BejoAgent" => run.steps <= 5 /\ run.iterations <= 5
          /\ run.executor = "AgentService" => run.steps <= 3 /\ run.iterations <= 3
          /\ run.pc = "running" => run.output = ""
          /\ run.pc = "done" => run.output \in {"final", "stopped", "error"})
    /\ (run.pc = "running") ~> (run.pc = "done")

\* C13's case: a run of AgentService in which the LLM never gave a final
\* answer was stopped after its third step
C13_Witness ==
    /\ run.executor = "AgentService"
    /\ run.pc = "done"
    /\ run.output = "stopped"
    /\ run.steps = 3
    /\ search.outcome = "results"

(***************************************************************************)
(* Properties of the agent tools.                                          *)
(***************************************************************************)
\* the seven tools of BejoAgent
IsAgentTool(name) ==
    name \in {"document_retrieval", "knowledge_search", "document_summary",
              "collection_stats", "isa95_level_analysis",
              "integration_points_analysis", "isa95_compliance_check"}

\* C14: a call of an agent tool lets no exception out: it gives a string back;
\* the ValueError the retrieval service raises for a level outside 1..4 and
\* the error of the statistics call come back as the tool's error string, and
\* a search_knowledge whose store search raises gives "Search failed" and no
\* result.
C14_ToolsReturnErrorStrings ==
    /\ IsAgentTool(tool.name)
       => /\ ~tool.raised
          /\ tool.observation # <<>>
          /\ (tool.name = "document_retrieval" /\ tool.level \notin 1..4)
             => tool.observation = <<"Error retrieving documents", "ValueError">>
          /\ (tool.name = "knowledge_search" /\ tool.level \notin 1..4)
             => tool.observation = <<"Error searching knowledge", "ValueError">>
          /\ (tool.name = "document_summary" /\ tool.level \notin 1..4)
             => tool.observation = <<"Error creating summary", "ValueError">>
          /\ (tool.name = "integration_points_analysis" /\ tool.level \notin 1..4)
             => tool.observation = <<"Error analyzing integration points", "KeyError">>
    /\ search.outcome \in {"", "no_access", "failed", "results"}
    /\ search.outcome = "failed" => search.results = <<>>

\* C14's case: document_retrieval was called for level 5, the service raised
\* ValueError and the tool gave its error string back
C14_Witness ==
    /\ tool.name = "document_retrieval"
    /\ tool.level = 5
    /\ ~tool.raised
    /\ tool.observation = <<"Error retrieving documents", "ValueError">>

\* the points of the initialised collections
PointsTotal ==
    LET RECURSIVE sum(_)
        sum(S) == IF S = {} THEN 0
                  ELSE LET n == CHOOSE x \in S : TRUE
                       IN  Cardinality(collections[n]) + sum(S \ {n})
    IN  sum(vector_stores)

\* C20 as stated: the collection_stats tool, GET /knowledge/stats and GET
\* /health/detailed report the statistics of the initialised collections, with
\* a total equal to the sum of their point counts, and no error outcome.
C20_StatsReportEveryCollection ==
    /\ tool.name = "collection_stats"
       => tool.observation = <<"Knowledge Base Statistics", PointsTotal>>
    /\ tool.name = "/knowledge/stats"
       => tool.observation = <<"collections", PointsTotal>>
    /\ tool.name = "/health/detailed"
       => tool.observation = <<"healthy", PointsTotal>>

(***************************************************************************)
(* Properties of RetrievalService.                                         *)
(***************************************************************************)
\* the collections of levels 1..n
UpToLevel(n) == {CollectionName[l] : l \in 1..n}

Retrieved == ret.op = "retrieve_documents"

\* every retriever of the last call was searched: none of them raised
AllSearched == ret.queried = ret.retrievers

AllStored == UNION {collections[n] : n \in AllCollections}

\* C1: retrieve_documents at level N searches and returns only what the
\* collections of levels 1..N hold, whatever the strategy and the contents.
C1_ReturnsOnlyLevelsUpToN ==
    Retrieved =>
        /\ \A i \in 1..Len(ret.queried) :
             ret.level \in 1..4 /\ ret.queried[i] \in UpToLevel(ret.level)
        /\ \A i \in 1..Len(ret.out) :
             /\ ret.level \in 1..4
             /\ \E d \in UNION {collections[n] : n \in UpToLevel(ret.level)} :
                  d.id = ret.out[i].id

\* C1's case: a call below level 4 returns documents while a higher collection,
\* initialised and searchable, holds a document
C1_Witness ==
    /\ Retrieved
    /\ ret.level \in 1..3
    /\ ret.strategy # "basic"
    /\ ret.out # <<>>
    /\ \E l \in (ret.level + 1)..4 :
         /\ CollectionName[l] \in vector_stores
         /\ collections[CollectionName[l]] # {}

\* C2: both access tables map each level N of 1..4 to exactly the collections
\* of levels 1..N, so what level N reads is a strict subset of what level N+1
\* reads and no level below N reads collection N; the documents readable at
\* level N are those the collections of levels 1..N hold.
C2_AccessTablesAreLevelPrefixes ==
    \A T \in {collection_levels, ACCESS_PERMISSIONS} :
        /\ DOMAIN T = 1..4
        /\ \A N \in 1..4 :
             /\ Range(T[N]) = UpToLevel(N)
             /\ \A M \in 1..(N - 1) : CollectionName[N] \notin Range(T[M])
             /\ UNION {collections[n] : n \in Range(T[N])}
                  = UNION {collections[CollectionName[l]] : l \in 1..N}
        /\ \A N \in 1..3 :
             Range(T[N]) \subseteq Range(T[N + 1]) /\ Range(T[N]) # Range(T[N + 1])

\* C2's case: a call at level 3 that searched all of its table's collections
C2_Witness ==
    /\ Retrieved /\ AllSearched
    /\ ret.level = 3
    /\ ret.strategy = "comprehensive"
    /\ Range(ret.queried) = UpToLevel(3)
    /\ ret.out # <<>>

\* C4: with strategy basic, retrieval at level N searches bejo-knowledge-level-N
\* and no collection of a lower level.
C4_BasicSearchesOwnLevelOnly ==
    (Retrieved /\ ret.strategy = "basic") =>
        /\ Len(ret.retrievers) <= 1
        /\ \A i \in 1..Len(ret.retrievers) : ret.retrievers[i] = CollectionName[ret.level]
        /\ \A i \in 1..Len(ret.queried) : ret.queried[i] = CollectionName[ret.level]
        /\ \A i \in 1..Len(ret.out) : ret.out[i] \in collections[CollectionName[ret.level]]

\* C4's case: a basic call at level 3 returns documents of level 3 while the
\* collection of level 1 is initialised and holds a document
C4_Witness ==
    /\ Retrieved
    /\ ret.strategy = "basic"
    /\ ret.level = 3
    /\ ret.queried = <<CollectionName[3]>>
    /\ ret.out # <<>>
    /\ CollectionName[1] \in vector_stores
    /\ collections[CollectionName[1]] # {}

\* C5 as stated: with strategy hierarchical at level N every initialised
\* collection of levels 1..N is searched, and for levels i < j <= N the weight
\* of bejo-knowledge-level-j is strictly greater than that of level i.
C5_HierarchicalFavoursHigherLevels ==
    (Retrieved /\ ret.strategy = "hierarchical" /\ ret.level \in 1..4) =>
        /\ Range(ret.retrievers) = UpToLevel(ret.level) \cap vector_stores
        /\ Len(ret.weights) = Len(ret.retrievers)
        /\ \A a, b \in 1..Len(ret.retrievers) :
             LevelOfCollection(ret.retrievers[a]) < LevelOfCollection(ret.retrievers[b])
             => ret.weights[a] < ret.weights[b]

\* C6: with strategy comprehensive at level N every initialised collection of
\* levels 1..N is searched, each with weight 1.0, and the merge changes no
\* score: a document returned is a stored document, score included.
C6_ComprehensiveEqualWeights ==
    (Retrieved /\ ret.strategy = "comprehensive" /\ ret.level \in 1..4) =>
        /\ Range(ret.retrievers) = UpToLevel(ret.level) \cap vector_stores
        /\ Len(ret.weights) = Len(ret.retrievers)
        /\ \A a \in 1..Len(ret.weights) : ret.weights[a] = 10
        /\ \A i \in 1..Len(ret.out) : ret.out[i] \in AllStored

\* C6's case: a comprehensive call that searched two collections or more and
\* returned a scored document of a lower level and one of its own level
C6_Witness ==
    /\ Retrieved /\ AllSearched
    /\ ret.strategy = "comprehensive"
    /\ Len(ret.queried) >= 2
    /\ \E i, j \in 1..Len(ret.out) :
         /\ ret.out[i].has_score /\ ret.out[j].has_score
         /\ ret.out[i] \in collections[CollectionName[ret.level]]
         /\ ret.out[j] \notin collections[CollectionName[ret.level]]

(***************************************************************************)
(* Properties of the search_knowledge tool.                                *)
(***************************************************************************)
Searched == search.outcome # ""

\* C3: the search_knowledge tool built for user_level L searches only the
\* collections of levels 1..L; every result is tagged with the collection of
\* level <= L that holds it; a permitted collection that does not open is
\* skipped and the permitted ones that open are all searched; for a level with
\* no permitted collection the tool answers "No accessible knowledge base found
\* for your level." and searches nothing.
C3_SearchToolHonoursPermissions ==
    Searched =>
        /\ \A i \in 1..Len(search.queried) :
             search.user_level \in 1..4 /\ search.queried[i] \in UpToLevel(search.user_level)
        /\ \A i \in 1..Len(search.results) :
             /\ search.user_level \in 1..4
             /\ search.results[i][1] \in UpToLevel(search.user_level)
             /\ \E d \in collections[search.results[i][1]] :
                  d.page_content = search.results[i][2]
        /\ search.outcome = "results"
           => Range(search.queried) = UpToLevel(search.user_level) \cap _vector_stores
        /\ search.user_level \notin 1..4 => search.outcome = "no_access"
        /\ search.outcome = "no_access" => search.queried = <<>> /\ search.results = <<>>

\* C3's case: a call at level 3 where one permitted collection did not open,
\* the two others were searched and gave results, and level 4 holds a document
C3_Witness ==
    /\ search.outcome = "results"
    /\ search.user_level = 3
    /\ Len(search.queried) = 2
    /\ \E n \in UpToLevel(3) : n \notin _vector_stores
    /\ \E i, j \in 1..Len(search.results) : search.results[i][1] # search.results[j][1]
    /\ collections[CollectionName[4]] # {}

\* C3's other case: a level with no permitted collection gets the message
C3_WitnessNoAccess ==
    /\ search.outcome = "no_access"
    /\ search.user_level = 5
    /\ \E n \in AllCollections : collections[n] # {}

(***************************************************************************)
(* Properties of QdrantChatMessageHistory.                                 *)
(***************************************************************************)
IsPrefix(s, t) == Len(s) <= Len(t) /\ SubSeq(t, 1, Len(s)) = s

\* C9: when add_message(m) returns, m is the last element of the in-memory list,
\* as the messages property reads it, and the last element of the pending
\* queue; the messages that came through add_message stand in the list in the
\* order of their calls.
C9_AddMessageAppendsToBothLists ==
    /\ hcall.op = "add_message"
       => /\ messages # <<>> /\ Last(messages) = hcall.message
          /\ _pending_messages # <<>> /\ Last(_pending_messages) = hcall.message
    /\ \A i, j \in 1..Len(messages) :
         ( /\ i < j
           /\ messages[i].via = "add_message"
           /\ messages[j].via = "add_message" )
         => messages[i].content < messages[j].content

\* C9's case: a second add_message has returned on a history that never read
\* the store; both messages are in the list and in the queue
C9_Witness ==
    /\ hcall.op = "add_message"
    /\ ~_loaded
    /\ store # <<>>
    /\ Len(messages) = 2
    /\ Len(_pending_messages) = 2
    /\ messages[1].type = "human" /\ messages[2].type = "ai"

\* C10 as stated: a step of flush_pending_messages or add_message_async during
\* which the store fails lets no exception out and leaves every message that
\* was in the in-memory list where it was.
C10_StoreFailureKeepsMemory ==
    [][ (hcall'.op \in {"flush_pending_messages", "add_message_async"}
         /\ hcall'.store_failed)
        => (~hcall'.raised /\ IsPrefix(_messages, _messages')) ]_vars

\* the pending queue holds the n-th message handed to the history
Queued(n) ==
    \E i \in 1..Len(_pending_messages) :
        _pending_messages[i].content = n /\ _pending_messages[i].via = "add_message"

\* the store holds the n-th message handed to the history, under its session
Stored(n) ==
    \E i \in 1..Len(store) : store[i].session_id = session_id /\ store[i].content = n

\* flush f starts: it takes the whole queue, in its order, and leaves it empty
FlushTakesQueue(f) ==
    (flush[f].pc = "idle" /\ flush'[f].pc = "storing")
    => /\ flush'[f].messages_to_store = _pending_messages
       /\ _pending_messages' = <<>>

\* a turn of the loop of flush f: with the store reachable the next message of
\* those taken, and no other, is appended to the store under the session
FlushWritesNext(f) ==
    (flush[f].pc = "storing" /\ flush'[f] # flush[f])
    => LET m == flush[f].messages_to_store[flush[f].i + 1]
       IN  /\ ~hcall'.store_failed
              => /\ Len(store') = Len(store) + 1
                 /\ SubSeq(store', 1, Len(store)) = store
                 /\ Last(store').session_id = session_id
                 /\ Last(store').content = m.content
                 /\ Last(store').type = m.type
           /\ \/ flush'[f] = [flush[f] EXCEPT !.i = flush[f].i + 1]
              \/ /\ flush[f].i + 1 = Len(flush[f].messages_to_store)
                 /\ flush'[f].pc = "idle"

\* C11 as stated: with a reachable store a run of flush_pending_messages writes
\* every message that was pending when it started to the store once, in queue
\* order and under the session_id, leaving in the queue only what was added
\* after it began; and every message added through add_message is eventually
\* written to the store.
C11_QueuedMessagesReachStore ==
    /\ [][\A f \in Flushers : FlushTakesQueue(f) /\ FlushWritesNext(f)]_vars
    /\ ([](~hcall.store_failed))
       => \A n \in 1..MaxMessages : Queued(n) ~> Stored(n)

\* when a turn was added: the n-th message handed to the history has content
\* n, and the turns found in the store at the start (contents above 100) were
\* added before any of them
AddedAt(content) == IF content > 100 THEN content - 1000 ELSE content

\* the history is as its constructor leaves it
Fresh == ~_loaded /\ _messages = <<>> /\ _pending_messages = <<>>

\* C12 as stated: aget_messages on a fresh history of session S, the store
\* being readable, returns exactly the turns persisted for S and no turn of
\* another session, each with its human/ai type, in the order in which they
\* were originally added.
C12_RehydrationRoundTrip ==
    [][ (Fresh /\ hcall'.op = "aget_messages" /\ ~hcall'.store_failed)
        => LET persisted == scroll(session_id)
           IN  /\ Len(_messages') = Len(persisted)
               /\ \A i \in 1..Len(persisted) :
                    Cardinality({j \in 1..Len(_messages') :
                                   /\ _messages'[j].content = persisted[i].content
                                   /\ _messages'[j].type = persisted[i].type})
                    = Cardinality({j \in 1..Len(persisted) :
                                     /\ persisted[j].content = persisted[i].content
                                     /\ persisted[j].type = persisted[i].type})
               /\ \A i, j \in 1..Len(_messages') :
                    i < j => AddedAt(_messages'[i].content) <= AddedAt(_messages'[j].content)
      ]_vars

(***************************************************************************)
(* SpecMerge: _deduplicate_and_rank applied to every list of at most       *)
(* MaxMergeLen documents, up to the naming of the contents. The k-th new   *)
(* content met is the k-th content class; class 1 is the long text         *)
(* followed by the document's position (equal leading 100 characters,      *)
(* different contents), the others are one-character texts.                *)
(***************************************************************************)
MergeContent(c, pos) == IF c = 1 THEN LongText \o <<pos>> ELSE <<c>>

MergeScores == {<<FALSE, 0>>} \cup {<<TRUE, v>> : v \in ScoreValues}

MergeClasses(docs) == Cardinality({content_key(docs[i]) : i \in 1..Len(docs)})

MergeUnscored(docs) == Cardinality({i \in 1..Len(docs) : ~docs[i].has_score})

InitMerge ==
    /\ InitIdleMerge
    /\ InitIdleKnowledge
    /\ InitIdleSearch
    /\ InitIdleHistory
    /\ InitIdleExt

\* one call of _deduplicate_and_rank, on the last argument extended by a document
DeduplicateAndRank ==
    /\ Len(mergeIn) < MaxMergeLen
    /\ \E c \in 1..(MergeClasses(mergeIn) + 1), sc \in MergeScores :
         LET pos == Len(mergeIn) + 1
             docs == Append(mergeIn, Document(pos, MergeContent(c, pos), sc[1], sc[2]))
         IN  /\ Len(docs) - MergeClasses(docs) <= MaxRepeats
             /\ MergeUnscored(docs) <= MaxUnscored
             /\ mergeIn' = docs
             /\ mergeOut' = _deduplicate_and_rank(docs)
    /\ UNCHANGED <<knowledgeVars, searchVars, historyVars, extVars>>

NextMerge == DeduplicateAndRank

SpecMerge == InitMerge /\ [][NextMerge]_vars

(***************************************************************************)
(* Properties of the merged result.                                        *)
(***************************************************************************)
\* the first 100 characters of a document's page content
LeadingText(doc) == SubSeq(doc.page_content, 1, Min(100, Len(doc.page_content)))

SameLead(a, b) == LeadingText(a) = LeadingText(b)

\* docs[i] is the first document of the list with its leading text
FirstOfGroup(docs, i) == \A j \in 1..(i - 1) : ~SameLead(docs[j], docs[i])

NumGroups(docs) == Cardinality({LeadingText(docs[i]) : i \in 1..Len(docs)})

NoTwoSameLead(docs) ==
    \A i, j \in 1..Len(docs) : i # j => ~SameLead(docs[i], docs[j])

\* C7 as stated: the merged result never holds two documents with equal first
\* 100 characters, and of each group of such duplicates exactly one document is
\* kept, the one encountered first.
C7_ExactlyOneOfEachGroupKept ==
    /\ NoTwoSameLead(mergeOut)
    /\ \A i \in 1..Len(mergeIn) :
         (\E j \in 1..Len(mergeIn) : j # i /\ SameLead(mergeIn[i], mergeIn[j]))
         => /\ Cardinality({k \in 1..Len(mergeOut) : SameLead(mergeOut[k], mergeIn[i])}) = 1
            /\ \A k \in 1..Len(mergeOut) :
                 SameLead(mergeOut[k], mergeIn[i])
                 => \E f \in 1..Len(mergeIn) :
                      FirstOfGroup(mergeIn, f) /\ mergeOut[k] = mergeIn[f]

\* C7 amended: the merged result never holds two documents with equal first 100
\* characters; every document kept is the first one met with its leading text,
\* so at most one document of a group of duplicates is kept, and exactly one of
\* every group when the list has at most 5 distinct leading texts (beyond that
\* the cut to the top 5 drops whole groups).
C7_AtMostOneOfEachGroupKept ==
    /\ NoTwoSameLead(mergeOut)
    /\ \A k \in 1..Len(mergeOut) :
         \E f \in 1..Len(mergeIn) : FirstOfGroup(mergeIn, f) /\ mergeOut[k] = mergeIn[f]
    /\ NumGroups(mergeIn) <= 5
       => \A i \in 1..Len(mergeIn) :
            \E k \in 1..Len(mergeOut) : SameLead(mergeOut[k], mergeIn[i])

\* C7's case: two documents with equal leading text and different contents, the
\* later one with the higher score; the earlier one is kept, the later one is not
C7_Witness ==
    \E i, j \in 1..Len(mergeIn) :
        /\ i < j
        /\ SameLead(mergeIn[i], mergeIn[j])
        /\ mergeIn[i].page_content # mergeIn[j].page_content
        /\ mergeIn[i].has_score /\ mergeIn[j].has_score
        /\ mergeIn[i].score < mergeIn[j].score
        /\ \E k \in 1..Len(mergeOut) : mergeOut[k] = mergeIn[i]
        /\ \A k \in 1..Len(mergeOut) : mergeOut[k] # mergeIn[j]

C21_ScoredResultDescending ==
    (\E i \in 1..Len(mergeIn) : mergeIn[i].has_score)
    => \A k, m \in 1..Len(mergeOut) :
         (k < m /\ mergeOut[k].has_score /\ mergeOut[m].has_score)
         => mergeOut[k].score >= mergeOut[m].score

\* the step is a write of flush_pending_messages to the store
FlushWrote ==
    /\ hcall'.op = "flush_pending_messages"
    /\ Len(store') = Len(store) + 1

\* C22: a message that flush_pending_messages writes to the store carries a
\* message_index that is not negative, that no point of the session already
\* in the store carries, and that is one more than the index of the message
\* the same flush wrote before it.
C22_FlushedIndexIsPosition ==
    [][ FlushWrote =>
          LET p == store'[Len(store')]
          IN  /\ p.message_index >= 0
              /\ \A i \in 1..Len(store) :
                   store[i].session_id = p.session_id
                   => store[i].message_index # p.message_index
              /\ \A f \in Flushers :
                   (flush[f].pc = "storing" /\ flush'[f] # flush[f] /\ flush[f].i > 0)
                   => p.message_index = flush[f].starting_index + flush[f].i
      ]_vars

\* C23: retrieve_documents raises ValueError exactly for a level outside 1..4;
\* for a level of 1..4 it returns, and what it returns is the empty list when
\* no store of the level is available, when the strategy is none of basic,
\* hierarchical and comprehensive, and when a retriever raised (the call
\* stopped before the last retriever, or no document was asked of the rest).
C23_RetrieveRaisesOnlyOnInvalidLevel ==
    ret.op = "retrieve_documents" =>
        /\ ret.outcome = IF ret.level \in {1, 2, 3, 4} THEN "ok" ELSE "ValueError"
        /\ ( /\ ret.level \in {1, 2, 3, 4}
             /\ \A c \in Range(collection_levels[ret.level]) : c \notin vector_stores )
           => ret.out = <<>>
        /\ ret.strategy \notin {"basic", "hierarchical", "comprehensive"}
           => ret.out = <<>>
        /\ Len(ret.queried) < Len(ret.retrievers) => ret.out = <<>>

\* a hierarchical retrieval of a valid level whose second retriever raised:
\* the call returned, with the empty list
C23_Witness ==
    /\ ret.op = "retrieve_documents"
    /\ ret.level \in {1, 2, 3, 4}
    /\ ret.outcome = "ok"
    /\ Len(ret.retrievers) >= 2
    /\ Len(ret.queried) < Len(ret.retrievers)
    /\ ret.out = <<>>

\* C24: a remove_agent call returns True and deletes the agent exactly when
\* its agent_id is a registered id other than "default"; in every other case it
\* returns False and leaves the registry as it was; and no step takes the
\* default agent out of the registry or puts another instance in its place.
C24_DefaultAgentNeverRemoved ==
    [][ /\ mcall'.op = "remove_agent" =>
             LET agent_id == mcall'.agent_id
                 removable == agent_id \in DOMAIN agents /\ agent_id # "default"
             IN  /\ mcall'.result = removable
                 /\ agents' = IF removable THEN Del(agents, agent_id) ELSE agents
        /\ "default" \in DOMAIN agents =>
             /\ "default" \in DOMAIN agents'
             /\ agents'["default"].instance = agents["default"].instance
      ]_vars

\* remove_agent("default") has just returned False with the default agent
\* registered, after another agent was made and removed
C24_Witness ==
    /\ mcall.op = "remove_agent"
    /\ mcall.agent_id = "default"
    /\ mcall.result = FALSE
    /\ DOMAIN agents = {"default"}
    /\ created = 2

\* C25: a clear_session_history(S) call on an agent returns True exactly when
\* the agent had a history for S; the agent then has the same sessions as
\* before, S with no messages and every other session with the messages it
\* had; for an S the agent does not know it returns False and the agent's
\* histories are as before; every other agent is left as it was.
C25_ClearTouchesOneSessionOfOneAgent ==
    [][ mcall'.op = "clear_session_history" =>
          LET agent_id == mcall'.agent_id
              S == mcall'.session_id
              before == IF agent_id \in DOMAIN agents
                        THEN agents[agent_id].chat_histories
                        ELSE EmptyDict
              after == agents'[agent_id].chat_histories
          IN  /\ mcall'.result = (S \in DOMAIN before)
              /\ DOMAIN after = DOMAIN before
              /\ \A s \in DOMAIN after :
                   after[s] = IF s = S THEN <<>> ELSE before[s]
              /\ \A other \in DOMAIN agents \ {agent_id} :
                   /\ other \in DOMAIN agents'
                   /\ agents'[other] = agents[other]
      ]_vars

\* session s1 of the default agent has just been cleared, while its session
\* s2 and session s1 of agent a1 keep their messages
C25_Witness ==
    /\ mcall.op = "clear_session_history"
    /\ mcall.agent_id = "default"
    /\ mcall.session_id = "s1"
    /\ mcall.result = TRUE
    /\ DOMAIN agents = {"default", "a1"}
    /\ DOMAIN agents["default"].chat_histories = {"s1", "s2"}
    /\ agents["default"].chat_histories["s1"] = <<>>
    /\ agents["default"].chat_histories["s2"] # <<>>
    /\ "s1" \in DOMAIN agents["a1"].chat_histories
    /\ agents["a1"].chat_histories["s1"] # <<>>

(***************************************************************************)
(* EmbeddingService.embed_document: the generator behind POST              *)
(* /knowledge/embed. Each action is one resumption of the generator, up to *)
(* its next yield.                                                         *)
(***************************************************************************)
\* Settings.CATEGORY_COLLECTIONS
CATEGORY_COLLECTIONS ==
    [category \in {1, 2, 3, 4} |-> CollectionName[category]]

\* what loader.load() does: it raises, returns no document, or returns some
LoadInputs == {"raises", "empty", "docs"}

\* an event of the stream; chunk_index is 0 for the events that carry none
Event(status, chunk_index) == [status |-> status, chunk_index |-> chunk_index]

\* the first yield of a call
EmbedStart ==
    /\ embed.pc \in {"idle", "done"}
    /\ \E category \in LevelInputs :
         embed' = [NoEmbed EXCEPT !.pc = "loading", !.category = category]
    /\ events' = << Event("loading", 0) >>
    /\ UNCHANGED <<knowledgeVars, mergeVars, searchVars, historyVars, toolVars,
                   agentVars, managerVars, sqlVars, asyncVars>>

\* the outer handler: except Exception -> yield error, and the generator ends
embed_error == [event |-> Event("error", 0), pc |-> "done"]

\* loader.load() and the test of docs
EmbedLoad ==
    /\ embed.pc = "loading"
    /\ \E load \in LoadInputs :
         LET after == IF load = "docs"
                      THEN [event |-> Event("splitting", 0), pc |-> "splitting"]
                      ELSE embed_error
         IN  /\ events' = Append(events, after.event)
             /\ embed' = [embed EXCEPT !.pc = after.pc]
    /\ UNCHANGED <<knowledgeVars, mergeVars, searchVars, historyVars, toolVars,
                   agentVars, managerVars, sqlVars, asyncVars>>

\* split_documents, the lookup of the category and get_vector_store (of a
\* VectorService made for the request: the store opens if the collection can
\* be ensured)
EmbedSplit ==
    /\ embed.pc = "splitting"
    /\ \E n \in 0..MaxChunks, storeOpens \in BOOLEAN :
         LET after == IF \/ n = 0
                         \/ embed.category \notin DOMAIN CATEGORY_COLLECTIONS
                         \/ ~storeOpens
                      THEN embed_error
                      ELSE [event |-> Event("embedding_started", 0), pc |-> "embedding"]
         IN  /\ events' = Append(events, after.event)
             /\ embed' = [embed EXCEPT !.pc = after.pc,
                                       !.total_chunks =
                                           IF after.pc = "embedding" THEN n ELSE 0]
    /\ UNCHANGED <<knowledgeVars, mergeVars, searchVars, historyVars, toolVars,
                   agentVars, managerVars, sqlVars, asyncVars>>

\* a loop turn whose failure reaches the outer handler
embed_chunk_unguarded(i, addFails) ==
    IF addFails THEN embed_error
    ELSE [event |-> Event("progress", i + 1), pc |-> "embedding"]

\* one turn of the loop over the chunks, i counted from 0: aadd_documents,
\* then the progress event, or the chunk_error event of the inner handler
embed_chunk(i, addFails) ==
    [event |-> Event(IF addFails THEN "chunk_error" ELSE "progress", i + 1),
     pc |-> "embedding"]

EmbedChunk ==
    /\ embed.pc = "embedding"
    /\ embed.i < embed.total_chunks
    /\ \E addFails \in BOOLEAN :
         LET after == embed_chunk(embed.i, addFails)
         IN  /\ events' = Append(events, after.event)
             /\ embed' = [embed EXCEPT !.pc = after.pc,
                                       !.i = embed.i + 1,
                                       !.stored = IF addFails THEN embed.stored
                                                  ELSE embed.stored + 1]
    /\ UNCHANGED <<knowledgeVars, mergeVars, searchVars, historyVars, toolVars,
                   agentVars, managerVars, sqlVars, asyncVars>>

\* the loop is over
EmbedComplete ==
    /\ embed.pc = "embedding"
    /\ embed.i = embed.total_chunks
    /\ events' = Append(events, Event("complete", 0))
    /\ embed' = [embed EXCEPT !.pc = "done"]
    /\ UNCHANGED <<knowledgeVars, mergeVars, searchVars, historyVars, toolVars,
                   agentVars, managerVars, sqlVars, asyncVars>>

InitEmbed ==
    /\ InitIdleKnowledge
    /\ InitIdleMerge
    /\ InitIdleSearch
    /\ InitIdleHistory
    /\ InitIdleExt

NextEmbed == EmbedStart \/ EmbedLoad \/ EmbedSplit \/ EmbedChunk \/ EmbedComplete

SpecEmbed == InitEmbed /\ [][NextEmbed]_vars

\* the stream has ended
Ended(status) == status \in {"error", "complete"}

\* C26: the events of an embed_document call come in a fixed order: loading
\* first, then splitting, then embedding_started, then for the chunks 1..n in
\* increasing order one progress or chunk_error event each with that
\* chunk_index, then complete as the last event, reached only after all n
\* chunks had their event; a failure before embedding_started ends the stream
\* with one error event, which is the last event, and no complete; no error
\* event follows embedding_started.
C26_EventsInFixedOrder ==
    LET n == embed.total_chunks
        started == Len(events) >= 3 /\ events[3].status = "embedding_started"
    IN  /\ embed.pc # "idle" => Len(events) >= 1
        /\ \A k \in 1..Len(events) :
             /\ k = 1 => events[k].status = "loading"
             /\ k = 2 => events[k].status \in {"splitting", "error"}
             /\ k = 3 => events[k].status \in {"embedding_started", "error"}
             /\ (k > 3 /\ k <= 3 + n) =>
                    /\ events[k].status \in {"progress", "chunk_error"}
                    /\ events[k].chunk_index = k - 3
             /\ k > 3 + n => events[k].status = "complete"
             /\ k > 3 => started
             /\ Ended(events[k].status) => k = Len(events)
        /\ started => n >= 1 /\ Len(events) <= n + 4
        /\ embed.pc = "done" <=> (events # <<>> /\ Ended(events[Len(events)].status))
        /\ (events # <<>> /\ events[Len(events)].status = "complete")
           => Len(events) = n + 4

\* a call of three chunks has ended with complete although its second chunk
\* failed: the third chunk still had its progress event
C26_Witness ==
    /\ embed.pc = "done"
    /\ embed.total_chunks = 3
    /\ Len(events) = 7
    /\ events[5] = Event("chunk_error", 2)
    /\ events[6] = Event("progress", 3)
    /\ events[7].status = "complete"

\* the messages a running flush has taken and not yet handed to the store
HeldBy(fl) ==
    {fl.messages_to_store[k] : k \in (fl.i + 1)..Len(fl.messages_to_store)}

\* C27: in every step of concurrent add_message and flush_pending_messages
\* calls, a message of the pending queue stays in the queue or is taken by
\* exactly one flush; a message a flush has taken stays with that flush until
\* that flush hands it to the store, and is then with no flush and not in the
\* queue; and no message is at once with two flushes, or with a flush and in
\* the queue.
C27_EachMessageTakenByOneFlush ==
    [][ /\ \A m \in Range(_pending_messages) :
             \/ /\ m \in Range(_pending_messages')
                /\ \A f \in Flushers : m \notin HeldBy(flush'[f])
             \/ /\ m \notin Range(_pending_messages')
                /\ Cardinality({f \in Flushers : m \in HeldBy(flush'[f])}) = 1
        /\ \A f \in Flushers : \A m \in HeldBy(flush[f]) :
             \/ m \in HeldBy(flush'[f])
             \/ /\ hcall'.op = "flush_pending_messages"
                /\ hcall'.message = m
                /\ m \notin Range(_pending_messages')
                /\ \A g \in Flushers : m \notin HeldBy(flush'[g])
        /\ \A f, g \in Flushers :
             f # g => HeldBy(flush'[f]) \cap HeldBy(flush'[g]) = {}
        /\ \A f \in Flushers :
             HeldBy(flush'[f]) \cap Range(_pending_messages') = {}
      ]_vars

\* two flushes run at once, each with the one message it took, while a third
\* message waits in the queue
C27_Witness ==
    /\ flush["f1"].pc = "storing"
    /\ flush["f2"].pc = "storing"
    /\ HeldBy(flush["f1"]) # {}
    /\ HeldBy(flush["f2"]) # {}
    /\ HeldBy(flush["f1"]) \cap HeldBy(flush["f2"]) = {}
    /\ Len(_pending_messages) = 1

\* C28: the message counter of a history is never negative and never above
\* the length of the in-memory message list.
C28_CounterWithinMessages ==
    /\ 0 <= _message_counter
    /\ _message_counter <= Len(_messages)

\* C29: when aget_messages returns, every message that was in the in-memory
\* list before the call is still in it, whether the read of the store
\* succeeded or failed, and every message of the pending queue is in the
\* in-memory list.
C29_RehydrationKeepsSessionState ==
    [][ hcall'.op = "aget_messages" =>
          /\ Range(_messages) \subseteq Range(_messages')
          /\ Range(_pending_messages') \subseteq Range(_messages')
      ]_vars

====
